---------------------------- MODULE Spec2Model ----------------------------
(***************************************************************************)
(* A model of the Sui -> WebAssembly-text transpiler (src/sui2wasm.py) and *)
(* of the execution of the text it emits.                                  *)
(*                                                                         *)
(* A source token is abstracted to the three facts the transpiler reads    *)
(* from its text: the leading character class  s  (the sigil 'v', 'g',     *)
(* 'a', a quote, a literal with a '.', any other literal, or the opcode    *)
(* itself), whether the text after the sigil (or the whole literal) is     *)
(* accepted by Python's int(), and the integer it then denotes.            *)
(* A source line is the non-empty token list parse_line returns for it.    *)
(*                                                                         *)
(* An emitted line of text is a record: sp = number of leading spaces,     *)
(* op = the fixed text of the line, n and m = the numbers printed in it.   *)
(* A Python exception raised while a list of lines is built is the line    *)
(* Raise in that list: a list holding it is never returned to the caller.  *)
(***************************************************************************)
EXTENDS Integers, Sequences, FiniteSets, TLC

VARIABLES
  transpiler, \* the object: output, indent, functions, used_globals, use_memory
  src,      \* the source lines given to the last operation
  ret,      \* what the last operation returned: [raised, text]
  calls,    \* operations applied so far
  repeats,  \* the last transpile call was given the source of the call before it
  routine,  \* the emitted routine being executed
  machine,  \* the machine executing it
  ref,      \* the outcome the source language gives the executed body
  proc,     \* the command-line process of sui2wasm: main and compile_to_wasm
  isu,      \* an Isu text and what the Isu tools made of it
  lexer     \* one call of parse_line: its line, its position and its tokens

vars == <<transpiler, src, ret, calls, repeats, routine, machine, ref, proc, isu,
         lexer>>

\* ------------------------------------------------------------------ bounds
MaxBody == 4        \* lines of a body whose routine is executed (control flow)
MaxAllocs == 2      \* lines of a body whose routine is executed (heap)
MaxBlock == 4       \* lines of a body handed to transpile_block alone
MaxLines == 4       \* lines of a source unit handed to a fresh transpiler
MaxUnit == 2        \* lines of a source unit handed to a reused transpiler
MaxCalls == 2       \* transpile calls on one transpiler object
RefFuel == 30       \* source instructions one reference run may execute
MaxIndex == 15      \* largest index or literal of an operand handed to resolve_value
MaxArith == 3       \* lines of a body whose routine is executed (arithmetic)
MaxChars == 5       \* characters of a line handed to parse_line
MaxStores == 3      \* lines of a body whose routine is executed (array cells)
MaxInput == 1       \* lines of the input file given to the command line
MaxStmts == 2       \* statements of the root sequence of an Isu program

\* ------------------------------------------------------------------ tokens
Tok(s, ok, n) == [s |-> s, ok |-> ok, n |-> n]
Op(c) == Tok(c, FALSE, 0)
V(i) == Tok("v", TRUE, i)
G(i) == Tok("g", TRUE, i)
A(i) == Tok("a", TRUE, i)
Lit(n) == Tok("lit", TRUE, n)
BadV == Tok("v", FALSE, 0)
Junk == Tok("lit", FALSE, 0)
Quoted == Tok("q", FALSE, 0)

\* tokens[k] of Python, 0-based k; a missing token is the IndexError token
IndexErrorTok == Tok("IndexError", FALSE, 0)
At(tokens, k) == IF k + 1 <= Len(tokens) THEN tokens[k + 1] ELSE IndexErrorTok

\* int(token) as the code applies it to a whole token (label ids, func ids)
IsInt(t) == t.s = "lit" /\ t.ok

\* ------------------------------------------------------------ emitted text
Ln(op, n) == [sp |-> 0, op |-> op, n |-> n, m |-> 0]
Raise == Ln("raise", 0)
Raised(out) == \E i \in DOMAIN out : out[i].op = "raise"

RECURSIVE Shift(_, _)
\* every line of out moved k spaces to the right
Shift(out, k) ==
  IF out = <<>> THEN <<>>
  ELSE <<IF Head(out).op = "raise" THEN Head(out)
         ELSE [Head(out) EXCEPT !.sp = @ + k]>> \o Shift(Tail(out), k)

RECURSIVE Concat(_)
Concat(ss) == IF ss = <<>> THEN <<>> ELSE Head(ss) \o Concat(Tail(ss))

RECURSIVE sorted(_)
\* Python's sorted() of a set of integers
sorted(S) ==
  IF S = {} THEN <<>>
  ELSE LET lo == CHOOSE x \in S : \A y \in S : x <= y
       IN <<lo>> \o sorted(S \ {lo})

\* ----------------------------------------------------------- resolve_value
resolve_value(val) ==
  IF val.s = "IndexError" THEN Raise
  ELSE IF val.s = "v" THEN (IF val.ok THEN Ln("(local.get $v", val.n) ELSE Raise)
  ELSE IF val.s = "g" THEN (IF val.ok THEN Ln("(global.get $g", val.n) ELSE Raise)
  ELSE IF val.s = "a" THEN (IF val.ok THEN Ln("(local.get $a", val.n) ELSE Raise)
  ELSE IF val.s = "q" THEN Ln("(i32.const", 0)
  ELSE IF val.s \in {"f", "."} THEN (IF val.ok THEN Ln("(i32.const", val.n) ELSE Raise)
  ELSE IF val.ok THEN Ln("(i32.const", val.n)
  ELSE Ln("(i32.const", 0)

set_var(var) ==
  IF var.s = "IndexError" THEN Raise
  ELSE IF var.s = "v" THEN (IF var.ok THEN Ln("(local.set $v", var.n) ELSE Raise)
  ELSE IF var.s = "g" THEN (IF var.ok THEN Ln("(global.set $g", var.n) ELSE Raise)
  ELSE Ln("", 0)

\* ---------------------------------------------------- transpile_instruction
op_map(op) ==
  CASE op = "+" -> "(i32.add)"
    [] op = "-" -> "(i32.sub)"
    [] op = "*" -> "(i32.mul)"
    [] op = "/" -> "(i32.div_s)"
    [] op = "%" -> "(i32.rem_s)"
    [] op = "<" -> "(i32.lt_s)"
    [] op = ">" -> "(i32.gt_s)"
    [] op = "~" -> "(i32.eq)"
    [] op = "&" -> "(i32.and)"
    [] op = "|" -> "(i32.or)"

transpile_instruction(tokens) ==
  LET op == tokens[1].s IN
  IF op = "=" THEN
    <<resolve_value(At(tokens, 2)), set_var(At(tokens, 1))>>
  ELSE IF op \in {"+", "-", "*", "/", "%", "<", ">", "~", "&", "|"} THEN
    <<resolve_value(At(tokens, 2)), resolve_value(At(tokens, 3)),
      Ln(op_map(op), 0), set_var(At(tokens, 1))>>
  ELSE IF op = "!" THEN
    <<resolve_value(At(tokens, 2)), Ln("(i32.eqz)", 0), set_var(At(tokens, 1))>>
  ELSE IF op = "." THEN
    <<resolve_value(At(tokens, 1)), Ln("(call $print_i32)", 0)>>
  ELSE IF op = "[" THEN
    <<Ln("(global.get $heap_ptr)", 0), set_var(At(tokens, 1)),
      Ln("(global.get $heap_ptr)", 0), resolve_value(At(tokens, 2)),
      Ln("(i32.const", 4), Ln("(i32.mul)", 0), Ln("(i32.add)", 0),
      Ln("(global.set $heap_ptr)", 0)>>
  ELSE IF op = "]" THEN
    <<resolve_value(At(tokens, 2)), resolve_value(At(tokens, 3)),
      Ln("(i32.const", 4), Ln("(i32.mul)", 0), Ln("(i32.add)", 0),
      Ln("(i32.load)", 0), set_var(At(tokens, 1))>>
  ELSE IF op = "{" THEN
    IF Len(tokens) >= 4 THEN
      <<resolve_value(At(tokens, 1)), resolve_value(At(tokens, 2)),
        Ln("(i32.const", 4), Ln("(i32.mul)", 0), Ln("(i32.add)", 0),
        resolve_value(At(tokens, 3)), Ln("(i32.store)", 0)>>
    ELSE <<>>
  ELSE <<>>

\* --------------------------------------------------------- transpile_block
At_sp(k, line) == IF line.op = "raise" THEN line ELSE [line EXCEPT !.sp = @ + k]

\* int(tokens[k]) of a whole token: its value, and whether int() raises
int_raises(t) == ~IsInt(t)

label_lines(lines) == {i \in DOMAIN lines : lines[i][1].s = ":"}

\* the set  labels  of the first loop over the body
collect_labels(lines) == {At(lines[i], 1).n : i \in label_lines(lines)}

labels_raise(lines) == \E i \in label_lines(lines) : int_raises(At(lines[i], 1))

\* a mutant of state_map: the numbering starts at 0
state_map_from_zero(labels) ==
  LET srt == sorted(labels)
  IN [l \in labels |-> (CHOOSE k \in 1..Len(srt) : srt[k] = l) - 1]

\* state_map: sorted(labels) numbered from 1
state_map(labels) ==
  LET srt == sorted(labels)
  IN [l \in labels |-> CHOOSE k \in 1..Len(srt) : srt[k] = l]

\* a mutant of target_state: an unknown label keeps its own number
target_state_unmapped(labels, target_label) ==
  IF target_label \in labels THEN state_map(labels)[target_label]
  ELSE target_label

\* a mutant of target_state: an unknown label goes to the first label's state
target_state_first(labels, target_label) ==
  IF target_label \in labels THEN state_map(labels)[target_label] ELSE 1

\* a mutant of target_state: a jump goes to the state after its label's
target_state_next(labels, target_label) ==
  IF target_label \in labels THEN state_map(labels)[target_label] + 1 ELSE 0

\* state_map.get(target_label, 0)
target_state(labels, target_label) ==
  IF target_label \in labels THEN state_map(labels)[target_label] ELSE 0

ensure_state(states, k) ==
  IF k \in DOMAIN states THEN states ELSE states @@ (k :> <<>>)

RECURSIVE build_states(_, _, _, _)
\* the second loop over the body: the instruction list of every state
build_states(lines, labels, current_state, states) ==
  IF lines = <<>> THEN states
  ELSE LET tokens == Head(lines) IN
    IF tokens[1].s = ":" THEN
      LET cs == state_map(labels)[At(tokens, 1).n]
      IN build_states(Tail(lines), labels, cs, ensure_state(states, cs))
    ELSE IF tokens[1].s = "}" THEN
      build_states(Tail(lines), labels, current_state, states)
    ELSE
      build_states(Tail(lines), labels, current_state,
                   [ensure_state(states, current_state)
                      EXCEPT ![current_state] = Append(@, tokens)])

partition_states(lines, labels) == build_states(lines, labels, 0, (0 :> <<>>))

set_state(k) == Ln("(local.set $_state (i32.const", k)

RECURSIVE resolve_all(_)
resolve_all(args) ==
  IF args = <<>> THEN <<>>
  ELSE <<resolve_value(Head(args))>> \o resolve_all(Tail(args))

\* the '$' branch, shared by both paths of transpile_block
call_code(tokens) ==
  IF Len(tokens) < 3 THEN <<Raise>>
  ELSE resolve_all(SubSeq(tokens, 4, Len(tokens)))
       \o <<Ln("(call $f", At(tokens, 2).n), set_var(At(tokens, 1))>>

\* the code of one instruction inside a state (8 spaces deep)
state_line_code(tokens, labels) ==
  LET op == tokens[1].s IN
  IF op = "?" THEN
    IF int_raises(At(tokens, 2)) THEN <<Raise>>
    ELSE <<At_sp(8, resolve_value(At(tokens, 1))),
           At_sp(8, Ln("(if", 0)),
           At_sp(10, Ln("(then", 0)),
           At_sp(12, set_state(target_state(labels, At(tokens, 2).n))),
           At_sp(12, Ln("(br $loop)", 0)),
           At_sp(10, Ln(")", 0)),
           At_sp(8, Ln(")", 0))>>
  ELSE IF op = "@" THEN
    IF int_raises(At(tokens, 1)) THEN <<Raise>>
    ELSE <<At_sp(8, set_state(target_state(labels, At(tokens, 1).n))),
           At_sp(8, Ln("(br $loop)", 0))>>
  ELSE IF op = "^" THEN
    <<At_sp(8, resolve_value(At(tokens, 1))), At_sp(8, Ln("(return)", 0))>>
  ELSE IF op = "$" THEN Shift(call_code(tokens), 8)
  ELSE Shift(transpile_instruction(tokens), 8)

RECURSIVE state_lines_code(_, _)
state_lines_code(state_lines, labels) ==
  IF state_lines = <<>> THEN <<>>
  ELSE state_line_code(Head(state_lines), labels)
       \o state_lines_code(Tail(state_lines), labels)

\* a mutant of has_jump: only the state's last instruction is looked at
has_jump_last(state_lines) ==
  /\ state_lines # <<>>
  /\ state_lines[Len(state_lines)][1].s \in {"@", "^"}

\* has_jump after the loop over the state's instructions
has_jump(state_lines) ==
  \E i \in DOMAIN state_lines : state_lines[i][1].s \in {"@", "^"}

\* a mutant of fallthrough: a state without a jump always leaves the loop
fallthrough_exit(state_id, states) ==
  IF has_jump(states[state_id]) THEN <<>>
  ELSE <<At_sp(8, Ln("(br $exit)", 0))>>

\* the synthesized transition at the end of a state
fallthrough(state_id, states) ==
  IF has_jump(states[state_id]) THEN <<>>
  ELSE IF state_id + 1 \in DOMAIN states
       THEN <<At_sp(8, set_state(state_id + 1)), At_sp(8, Ln("(br $loop)", 0))>>
       ELSE <<At_sp(8, Ln("(br $exit)", 0))>>

state_code(state_id, states, labels) ==
  <<At_sp(4, Ln(";; State", state_id)),
    At_sp(4, Ln("(if (i32.eq (local.get $_state) (i32.const", state_id)),
    At_sp(6, Ln("(then", 0))>>
  \o state_lines_code(states[state_id], labels)
  \o fallthrough(state_id, states)
  \o <<At_sp(6, Ln(")", 0)), At_sp(4, Ln(")", 0))>>

RECURSIVE states_code(_, _, _)
\* for state_id in sorted(states.keys())
states_code(ids, states, labels) ==
  IF ids = <<>> THEN <<>>
  ELSE state_code(Head(ids), states, labels)
       \o states_code(Tail(ids), states, labels)

dispatch_loop(lines, labels) ==
  LET states == partition_states(lines, labels) IN
  <<Ln("(local $_state i32)", 0), set_state(0),
    Ln("(block $exit", 0), At_sp(2, Ln("(loop $loop", 0))>>
  \o states_code(sorted(DOMAIN states), states, labels)
  \o <<At_sp(4, Ln("(br $exit)", 0)), At_sp(2, Ln(")", 0)), Ln(")", 0)>>

\* the path of a body without labels
linear_line_code(tokens) ==
  LET op == tokens[1].s IN
  IF op = "}" THEN <<>>
  ELSE IF op = "^" THEN <<resolve_value(At(tokens, 1)), Ln("(return)", 0)>>
  ELSE IF op = "$" THEN call_code(tokens)
  ELSE transpile_instruction(tokens)

RECURSIVE linear_code_reversed(_)
\* a mutant of linear_code: the last line's code comes first
linear_code_reversed(lines) ==
  IF lines = <<>> THEN <<>>
  ELSE linear_code_reversed(Tail(lines)) \o linear_line_code(Head(lines))

RECURSIVE linear_code(_)
linear_code(lines) ==
  IF lines = <<>> THEN <<>>
  ELSE linear_line_code(Head(lines)) \o linear_code(Tail(lines))

transpile_block(lines) ==
  IF labels_raise(lines) THEN <<Raise>>
  ELSE LET labels == collect_labels(lines) IN
    IF labels # {} THEN dispatch_loop(lines, labels) ELSE linear_code(lines)

\* ------------------------------------------------------------- collect_info
\* a mutant of collect_globals: the scan starts after the destination
collect_globals_sources(lines) ==
  UNION {{lines[i][j].n : j \in {k \in 3..Len(lines[i]) :
             lines[i][k].s = "g" /\ lines[i][k].ok}} : i \in DOMAIN lines}

\* the operands (tokens[1:]) that start with 'g' and carry an index int() accepts
collect_globals(lines) ==
  UNION {{lines[i][j].n : j \in {k \in 2..Len(lines[i]) :
             lines[i][k].s = "g" /\ lines[i][k].ok}} : i \in DOMAIN lines}

\* a mutant of collect_memory: the allocate opcode is missing from the list
collect_memory_no_alloc(lines) ==
  \E i \in DOMAIN lines : lines[i][1].s \in {"]", "{"}

\* use_memory after collect_info
collect_memory(lines) == \E i \in DOMAIN lines : lines[i][1].s \in {"[", "]", "{"}

\* a mutant of collect_locals: the scan starts after the destination
collect_locals_sources(lines) ==
  UNION {{lines[i][j].n : j \in {k \in 3..Len(lines[i]) :
             lines[i][k].s = "v" /\ lines[i][k].ok}} : i \in DOMAIN lines}

\* the local scan of transpile_function and of the entry pass: every token
\* of the line (the opcode included) that starts with 'v'
collect_locals(lines) ==
  UNION {{lines[i][j].n : j \in {k \in 1..Len(lines[i]) :
             lines[i][k].s = "v" /\ lines[i][k].ok}} : i \in DOMAIN lines}

\* ------------------------------------------------------- transpile_function
RECURSIVE local_decls(_, _)
local_decls(vs, sp) ==
  IF vs = <<>> THEN <<>>
  ELSE <<At_sp(sp, Ln("(local $v", Head(vs)))>> \o local_decls(Tail(vs), sp)

\* a mutant of default_result
default_result_one == Ln("(i32.const", 1)

\* the default result appended after a routine's body
default_result == Ln("(i32.const", 0)

func_header(func_id, argc) ==
  [sp |-> 0, op |-> "(func $f (export f) params (result i32)", n |-> func_id,
   m |-> IF argc > 0 THEN argc ELSE 0]

transpile_function(func_id, argc, body) ==
  LET body_code == transpile_block(body) IN
  IF Raised(body_code) THEN <<Raise>>
  ELSE <<func_header(func_id, argc)>>
       \o local_decls(sorted(collect_locals(body)), 2)
       \o Shift(body_code, 2)
       \o <<At_sp(2, default_result), Ln(")", 0)>>

\* ----------------------------------------------- transpile: the two passes
RECURSIVE scan_body(_, _, _, _)
\* the inner loop of the function pass, i 1-based: the body, and where it stops
scan_body(lines, i, depth, body) ==
  IF i <= Len(lines) /\ depth > 0 THEN
    IF lines[i][1].s = "#" THEN
      scan_body(lines, i + 1, depth + 1, Append(body, lines[i]))
    ELSE IF lines[i][1].s = "}" THEN
      IF depth - 1 = 0 THEN [body |-> body, i |-> i]
      ELSE scan_body(lines, i + 1, depth - 1, Append(body, lines[i]))
    ELSE scan_body(lines, i + 1, depth, Append(body, lines[i]))
  ELSE [body |-> body, i |-> i]

NoFunctions == [id \in {} |-> [argc |-> 0, body |-> <<>>]]

put_function(functions, func_id, info) ==
  [id \in DOMAIN functions \cup {func_id} |->
     IF id = func_id THEN info ELSE functions[id]]

RECURSIVE collect_functions(_, _, _)
\* the function pass: self.functions, or the exception of int() on the header
collect_functions(lines, i, functions) ==
  IF i > Len(lines) THEN [raised |-> FALSE, functions |-> functions]
  ELSE IF lines[i][1].s = "#" THEN
    IF int_raises(At(lines[i], 1)) \/ int_raises(At(lines[i], 2))
    THEN [raised |-> TRUE, functions |-> functions]
    ELSE LET r == scan_body(lines, i + 1, 1, <<>>)
         IN collect_functions(lines, r.i + 1,
              put_function(functions, lines[i][2].n,
                           [argc |-> lines[i][3].n, body |-> r.body]))
  ELSE collect_functions(lines, i + 1, functions)

RECURSIVE skip_span_flat(_, _, _)
\* a mutant of skip_span: a nested '#' does not deepen the span
skip_span_flat(lines, i, depth) ==
  IF i <= Len(lines) /\ depth > 0 THEN
    IF lines[i][1].s = "}" THEN skip_span_flat(lines, i + 1, depth - 1)
    ELSE skip_span_flat(lines, i + 1, depth)
  ELSE i

RECURSIVE skip_span(_, _, _)
\* the inner loop of the entry pass: the index after the span
skip_span(lines, i, depth) ==
  IF i <= Len(lines) /\ depth > 0 THEN
    IF lines[i][1].s = "#" THEN skip_span(lines, i + 1, depth + 1)
    ELSE IF lines[i][1].s = "}" THEN skip_span(lines, i + 1, depth - 1)
    ELSE skip_span(lines, i + 1, depth)
  ELSE i

RECURSIVE collect_main(_, _, _)
\* the entry pass: main_lines
collect_main(lines, i, main_lines) ==
  IF i > Len(lines) THEN main_lines
  ELSE IF lines[i][1].s = "#" THEN
    collect_main(lines, skip_span(lines, i + 1, 1), main_lines)
  ELSE collect_main(lines, i + 1, Append(main_lines, lines[i]))

\* ------------------------------------------------- transpile: the emission
RECURSIVE BeforeRaise(_)
\* the lines appended to self.output before an exception left transpile
BeforeRaise(out) ==
  IF out = <<>> \/ Head(out).op = "raise" THEN <<>>
  ELSE <<Head(out)>> \o BeforeRaise(Tail(out))

RECURSIVE global_decls(_)
global_decls(gs) ==
  IF gs = <<>> THEN <<>>
  ELSE <<Ln("(global $g (export g) (mut i32) (i32.const 0))", Head(gs))>>
       \o global_decls(Tail(gs))

\* "(module" and what follows it up to the function definitions, at indent 0
module_head(use_memory, used_globals) ==
  <<Ln("(module", 0)>>
  \o Shift(<<Ln(";; External function imports", 0),
             Ln("(import env print_i32 (func $print_i32 (param i32)))", 0),
             Ln("", 0)>>
           \o (IF use_memory
               THEN <<Ln(";; Linear memory for arrays", 0),
                      Ln("(memory 1)", 0),
                      Ln("(global $heap_ptr (mut i32) (i32.const 0))", 0),
                      Ln("", 0)>>
               ELSE <<>>)
           \o (IF used_globals # {}
               THEN <<Ln(";; Global variables", 0)>>
                    \o global_decls(sorted(used_globals)) \o <<Ln("", 0)>>
               ELSE <<>>), 2)

RECURSIVE functions_code(_, _)
\* for func_id, func_info in sorted(self.functions.items()), at indent 1
functions_code(ids, functions) ==
  IF ids = <<>> THEN <<>>
  ELSE LET func_lines == transpile_function(Head(ids), functions[Head(ids)].argc,
                                            functions[Head(ids)].body)
       IN IF Raised(func_lines) THEN <<Raise>>
          ELSE Shift(func_lines \o <<Ln("", 0)>>, 2)
               \o functions_code(Tail(ids), functions)

RECURSIVE reversed(_)
reversed(ids) ==
  IF ids = <<>> THEN <<>> ELSE reversed(Tail(ids)) \o <<Head(ids)>>

\* a mutant of module_functions: the ids are not taken in ascending order
module_functions_unsorted(functions) ==
  IF DOMAIN functions # {}
  THEN <<At_sp(2, Ln(";; Function definitions", 0))>>
       \o functions_code(reversed(sorted(DOMAIN functions)), functions)
  ELSE <<>>

module_functions(functions) ==
  IF DOMAIN functions # {}
  THEN <<At_sp(2, Ln(";; Function definitions", 0))>>
       \o functions_code(sorted(DOMAIN functions), functions)
  ELSE <<>>

\* the entry routine and the two closing lines, at indent 0
module_main(lines) ==
  LET main_lines == collect_main(lines, 1, <<>>)
      body_code == transpile_block(main_lines)
  IN <<At_sp(2, Ln(";; Main function", 0)),
       At_sp(2, Ln("(func $main (export main) (result i32)", 0))>>
     \o local_decls(sorted(collect_locals(main_lines)), 4)
     \o (IF Raised(body_code) THEN <<Raise>>
         ELSE Shift(body_code, 4)
              \o <<At_sp(4, default_result), At_sp(2, Ln(")", 0)), Ln(")", 0)>>)

\* __init__
NewTranspiler ==
  [output |-> <<>>, indent |-> 0, functions |-> NoFunctions,
   used_globals |-> {}, use_memory |-> FALSE]

\* a mutant of reset_output: self.output is not emptied when a call starts
keep_output(self) == self.output

\* self.output = [] at the start of transpile
reset_output(self) == <<>>

\* transpile(code) on the object self: the object afterwards, whether the call
\* raised, and the text it returned
transpile(self, lines) ==
  LET use_memory == collect_memory(lines)
      used_globals == collect_globals(lines)
      cf == collect_functions(lines, 1, NoFunctions)
      funcs == module_functions(cf.functions)
      emitted == Shift(module_head(use_memory, used_globals) \o funcs
                       \o module_main(lines), 2 * self.indent)
      after == [output |-> reset_output(self), indent |-> self.indent,
                functions |-> cf.functions, used_globals |-> used_globals,
                use_memory |-> use_memory]
  IN IF cf.raised THEN
       [self |-> after, raised |-> TRUE, text |-> <<>>]
     ELSE IF Raised(emitted) THEN
       [self |-> [after EXCEPT
                    !.output = @ \o BeforeRaise(emitted),
                    !.indent = @ + (IF Raised(funcs) THEN 1 ELSE 2)],
        raised |-> TRUE, text |-> <<>>]
     ELSE
       [self |-> [after EXCEPT !.output = @ \o emitted],
        raised |-> FALSE, text |-> reset_output(self) \o emitted]

\* ------------------------------------------- execution of an emitted routine
\* A routine (lines from "(func" to its closing ")") runs on a WebAssembly
\* machine: pc is the line to run next; a block, loop, if or then line opens
\* a scope that the matching ")" line closes.
\* i32 values are the integers MinI32..MaxI32; the operations wrap
MaxI32 == 2147483647
MinI32 == -MaxI32 - 1
add32(a, b) ==
  IF b > 0 /\ a > MaxI32 - b THEN (a + MinI32) + (b + MinI32)
  ELSE IF b < 0 /\ a < MinI32 - b THEN ((a + MaxI32) + 1) + ((b + MaxI32) + 1)
  ELSE a + b
neg32(a) == IF a = MinI32 THEN MinI32 ELSE -a
sub32(a, b) == IF b = MinI32 THEN add32(add32(a, MaxI32), 1) ELSE add32(a, -b)
RECURSIVE mul32(_, _)
mul32(a, b) ==
  IF b = 0 THEN 0
  ELSE IF b < 0 THEN neg32(mul32(a, neg32(b)))
  ELSE add32(IF b % 2 = 1 THEN a ELSE 0, mul32(add32(a, a), b \div 2))

Opens(line) ==
  line.op \in {"(block $exit", "(loop $loop", "(if", "(then",
               "(if (i32.eq (local.get $_state) (i32.const",
               "(func $f (export f) params (result i32)",
               "(func $main (export main) (result i32)"}

RECURSIVE MatchFrom(_, _, _)
\* the ")" line that closes the scope opened before line j, depth scopes deep
MatchFrom(code, j, depth) ==
  IF j > Len(code) THEN j
  ELSE IF Opens(code[j]) THEN MatchFrom(code, j + 1, depth + 1)
  ELSE IF code[j].op = ")" THEN
    (IF depth = 1 THEN j ELSE MatchFrom(code, j + 1, depth - 1))
  ELSE MatchFrom(code, j + 1, depth)

Match(code, i) == MatchFrom(code, i + 1, 1)

LineOf(code, op) == CHOOSE i \in DOMAIN code : code[i].op = op

Get(f, i) == IF i \in DOMAIN f THEN f[i] ELSE 0
Put(f, i, x) == [j \in DOMAIN f \cup {i} |-> IF j = i THEN x ELSE f[j]]
NoVars == [i \in {} |-> 0]

Machine(args) ==
  [pc |-> 1, stack |-> <<>>, globals |-> NoVars, locals |-> NoVars,
   params |-> args, heap_ptr |-> 0, mem |-> NoVars, state |-> 0,
   printed |-> <<>>, result |-> 0, status |-> "run"]

Top(st) == st[Len(st)]
Pop(st, k) == SubSeq(st, 1, Len(st) - k)

\* truncating signed division and its remainder (b # 0, not MinI32 / -1)
div_s(a, b) ==
  IF b > 0 THEN (IF a >= 0 THEN a \div b ELSE -((-a) \div b))
  ELSE (IF a >= 0 THEN -(a \div (-b)) ELSE (-a) \div (-b))
rem_s(a, b) == a - b * div_s(a, b)

RECURSIVE bits_and(_, _)
\* bitwise and of two's complement values
bits_and(a, b) ==
  IF a = 0 \/ b = 0 THEN 0
  ELSE IF a = -1 THEN b
  ELSE IF b = -1 THEN a
  ELSE (a % 2) * (b % 2) + 2 * bits_and(a \div 2, b \div 2)
RECURSIVE bits_or(_, _)
bits_or(a, b) ==
  IF a = 0 THEN b
  ELSE IF b = 0 THEN a
  ELSE IF a = -1 \/ b = -1 THEN -1
  ELSE (IF a % 2 = 1 \/ b % 2 = 1 THEN 1 ELSE 0)
       + 2 * bits_or(a \div 2, b \div 2)

Binary(op, a, b) ==
  CASE op = "(i32.add)" -> add32(a, b)
    [] op = "(i32.sub)" -> sub32(a, b)
    [] op = "(i32.mul)" -> mul32(a, b)
    [] op = "(i32.div_s)" -> div_s(a, b)
    [] op = "(i32.rem_s)" -> IF b = -1 THEN 0 ELSE rem_s(a, b)
    [] op = "(i32.lt_s)" -> IF a < b THEN 1 ELSE 0
    [] op = "(i32.gt_s)" -> IF a > b THEN 1 ELSE 0
    [] op = "(i32.eq)" -> IF a = b THEN 1 ELSE 0
    [] op = "(i32.and)" -> bits_and(a, b)
    [] op = "(i32.or)" -> bits_or(a, b)

\* the operand pairs on which the operation traps
Traps(op, a, b) ==
  \/ op \in {"(i32.div_s)", "(i32.rem_s)"} /\ b = 0
  \/ op = "(i32.div_s)" /\ a = MinI32 /\ b = -1

BinaryOps == {"(i32.add)", "(i32.sub)", "(i32.mul)", "(i32.div_s)",
              "(i32.rem_s)", "(i32.lt_s)", "(i32.gt_s)", "(i32.eq)",
              "(i32.and)", "(i32.or)"}

\* little-endian 4-byte cell at byte address a of a one-page memory
PageBytes == 65536
InPage(a) == a >= 0 /\ a + 4 <= PageBytes
Byte(x, k) == (x \div (256 ^ k)) % 256
Load(mem, a) ==
  Get(mem, a) + 256 * Get(mem, a + 1) + 65536 * Get(mem, a + 2)
  + 16777216 * (IF Get(mem, a + 3) >= 128 THEN Get(mem, a + 3) - 256
                ELSE Get(mem, a + 3))
Store(mem, a, x) ==
  [j \in DOMAIN mem \cup {a, a + 1, a + 2, a + 3} |->
     IF j \in {a, a + 1, a + 2, a + 3} THEN Byte(x, j - a) ELSE mem[j]]

Needs(line) ==
  IF line.op \in BinaryOps \/ line.op = "(i32.store)" THEN 2
  ELSE IF line.op \in {"(local.set $v", "(global.set $g", "(i32.eqz)",
                       "(call $print_i32)", "(global.set $heap_ptr)",
                       "(i32.load)", "(if", "(return)"} THEN 1
  ELSE 0

\* one line of the routine  code  run on machine  m ;  r  is the value a
\* called function returns
Exec(code, m, r) ==
  IF m.pc > Len(code) THEN
    \* the end of the function: its result is the value left on the stack
    IF m.stack = <<>> THEN [m EXCEPT !.status = "trap"]
    ELSE [m EXCEPT !.status = "end", !.result = Top(m.stack)]
  ELSE
  LET line == code[m.pc]
      op == line.op
      st == m.stack
      next == [m EXCEPT !.pc = @ + 1]
  IN
  IF Len(st) < Needs(line) THEN [m EXCEPT !.status = "trap"]
  ELSE IF op = "(local.get $v" THEN [next EXCEPT !.stack = Append(st, Get(m.locals, line.n))]
  ELSE IF op = "(global.get $g" THEN [next EXCEPT !.stack = Append(st, Get(m.globals, line.n))]
  ELSE IF op = "(local.get $a" THEN [next EXCEPT !.stack = Append(st, Get(m.params, line.n))]
  ELSE IF op = "(i32.const" THEN [next EXCEPT !.stack = Append(st, line.n)]
  ELSE IF op = "(local.set $v" THEN
    [next EXCEPT !.stack = Pop(st, 1), !.locals = Put(m.locals, line.n, Top(st))]
  ELSE IF op = "(global.set $g" THEN
    [next EXCEPT !.stack = Pop(st, 1), !.globals = Put(m.globals, line.n, Top(st))]
  ELSE IF op = "(global.get $heap_ptr)" THEN [next EXCEPT !.stack = Append(st, m.heap_ptr)]
  ELSE IF op = "(global.set $heap_ptr)" THEN
    [next EXCEPT !.stack = Pop(st, 1), !.heap_ptr = Top(st)]
  ELSE IF op \in BinaryOps THEN
    IF Traps(op, st[Len(st) - 1], Top(st))
    THEN [m EXCEPT !.status = "trap"]
    ELSE [next EXCEPT !.stack =
            Append(Pop(st, 2), Binary(op, st[Len(st) - 1], Top(st)))]
  ELSE IF op = "(i32.eqz)" THEN
    [next EXCEPT !.stack = Append(Pop(st, 1), IF Top(st) = 0 THEN 1 ELSE 0)]
  ELSE IF op = "(call $print_i32)" THEN
    [next EXCEPT !.stack = Pop(st, 1), !.printed = Append(@, Top(st))]
  ELSE IF op = "(call $f" THEN [next EXCEPT !.stack = <<r>>]
  ELSE IF op = "(i32.load)" THEN
    IF InPage(Top(st)) THEN [next EXCEPT !.stack = Append(Pop(st, 1), Load(m.mem, Top(st)))]
    ELSE [m EXCEPT !.status = "trap"]
  ELSE IF op = "(i32.store)" THEN
    IF InPage(st[Len(st) - 1])
    THEN [next EXCEPT !.stack = Pop(st, 2), !.mem = Store(m.mem, st[Len(st) - 1], Top(st))]
    ELSE [m EXCEPT !.status = "trap"]
  ELSE IF op = "(return)" THEN [m EXCEPT !.status = "returned", !.result = Top(st)]
  ELSE IF op = "(local.set $_state (i32.const" THEN [next EXCEPT !.state = line.n]
  ELSE IF op = "(if (i32.eq (local.get $_state) (i32.const" THEN
    IF m.state = line.n THEN next ELSE [m EXCEPT !.pc = Match(code, m.pc) + 1]
  ELSE IF op = "(if" THEN
    IF Top(st) # 0 THEN [next EXCEPT !.stack = Pop(st, 1)]
    ELSE [m EXCEPT !.stack = Pop(st, 1), !.pc = Match(code, m.pc) + 1]
  ELSE IF op = "(br $loop)" THEN
    [m EXCEPT !.pc = LineOf(code, "(loop $loop") + 1, !.stack = <<>>]
  ELSE IF op = "(br $exit)" THEN
    [m EXCEPT !.pc = Match(code, LineOf(code, "(block $exit")) + 1, !.stack = <<>>]
  ELSE next

\* the emitted lines of one routine, from its "(func" line to its ")"
function_routine(body) == transpile_function(0, 1, body)
entry_routine(body) ==
  LET mm == module_main(body) IN SubSeq(mm, 2, Len(mm) - 1)

\* ------------------------------------- the source program's own semantics
\* The meaning the source language gives a body: instructions run in textual
\* order, a taken jump continues after the marker of its label, operands are
\* read before the destination is written.
RefInit(args) ==
  [pc |-> 1, globals |-> NoVars, locals |-> NoVars, params |-> args,
   heap_ptr |-> 0, printed |-> <<>>, result |-> 0, done |-> FALSE,
   defined |-> TRUE]

RefVal(t, st) ==
  IF t.s = "v" THEN Get(st.locals, t.n)
  ELSE IF t.s = "g" THEN Get(st.globals, t.n)
  ELSE IF t.s = "a" THEN Get(st.params, t.n)
  ELSE IF t.s \in {"lit", "f"} /\ t.ok THEN t.n
  ELSE 0

RefAssign(st, dest, x) ==
  IF dest.s = "v" THEN [st EXCEPT !.locals = Put(@, dest.n, x), !.pc = @ + 1]
  ELSE IF dest.s = "g" THEN [st EXCEPT !.globals = Put(@, dest.n, x), !.pc = @ + 1]
  ELSE [st EXCEPT !.pc = @ + 1]

RefMarkers(body, label) ==
  {i \in DOMAIN body : body[i][1].s = ":" /\ At(body[i], 1).n = label}

RefJump(body, st, label) ==
  IF Cardinality(RefMarkers(body, label)) = 1
  THEN [st EXCEPT !.pc = (CHOOSE i \in RefMarkers(body, label) : TRUE) + 1]
  ELSE [st EXCEPT !.defined = FALSE]

RefStep(body, st) ==
  IF st.pc > Len(body) THEN [st EXCEPT !.done = TRUE, !.result = 0]
  ELSE
  LET tokens == body[st.pc]
      op == tokens[1].s
      a == RefVal(At(tokens, 2), st)
      b == RefVal(At(tokens, 3), st)
  IN
  IF op \in {":", "}"} THEN [st EXCEPT !.pc = @ + 1]
  ELSE IF op = "@" THEN RefJump(body, st, At(tokens, 1).n)
  ELSE IF op = "?" THEN
    IF RefVal(At(tokens, 1), st) # 0 THEN RefJump(body, st, At(tokens, 2).n)
    ELSE [st EXCEPT !.pc = @ + 1]
  ELSE IF op = "^" THEN
    [st EXCEPT !.done = TRUE, !.result = RefVal(At(tokens, 1), st)]
  ELSE IF op = "=" THEN RefAssign(st, At(tokens, 1), a)
  ELSE IF op = "!" THEN RefAssign(st, At(tokens, 1), IF a = 0 THEN 1 ELSE 0)
  ELSE IF op \in {"+", "-", "*", "<", ">", "~", "&", "|"} THEN
    RefAssign(st, At(tokens, 1), Binary(op_map(op), a, b))
  ELSE IF op = "." THEN
    [st EXCEPT !.printed = Append(@, RefVal(At(tokens, 1), st)), !.pc = @ + 1]
  ELSE IF op = "[" THEN
    RefAssign([st EXCEPT !.heap_ptr = add32(@, mul32(a, 4))], At(tokens, 1), st.heap_ptr)
  ELSE [st EXCEPT !.defined = FALSE]

RECURSIVE RefRun(_, _, _)
RefRun(body, st, fuel) ==
  IF st.done \/ ~st.defined \/ fuel = 0 THEN st
  ELSE RefRun(body, RefStep(body, st), fuel - 1)

\* ------------------------------------------------------------ the inputs
\* an index whose fourfold is 2^32
FarIndex == MaxI32 \div 2 + 1
SeqsUpTo(S, n) == UNION {[1..k -> S] : k \in 0..n}

\* ': 1'  ': 2'  '@ 1'  '? g0 2'  '@ 3'  '^ g0'  '! g0 g0'
FlowLines ==
  {<<Op(":"), Lit(1)>>, <<Op(":"), Lit(2)>>, <<Op("@"), Lit(1)>>,
   <<Op("?"), G(0), Lit(2)>>, <<Op("@"), Lit(3)>>, <<Op("^"), G(0)>>,
   <<Op("!"), G(0), G(0)>>}

\* '[ g0 3'  '[ g1 2'  '[ g0 g0'  '= g0 3'  '. g1'  '$ g1 1 g0'  '[ g1 -1'
HeapLines ==
  {<<Op("["), G(0), Lit(3)>>, <<Op("["), G(1), Lit(2)>>, <<Op("["), G(0), G(0)>>,
   <<Op("="), G(0), Lit(3)>>, <<Op("."), G(1)>>, <<Op("$"), G(1), Lit(1), G(0)>>,
   <<Op("["), G(1), Lit(-1)>>}

\* ': 5'  ': 2'  ': 9'  '@ 2'  '? g0 7'  '^ g0'  '= g0 1'  '}'
BlockLines ==
  {<<Op(":"), Lit(5)>>, <<Op(":"), Lit(2)>>, <<Op(":"), Lit(9)>>,
   <<Op("@"), Lit(2)>>, <<Op("?"), G(0), Lit(7)>>, <<Op("^"), G(0)>>,
   <<Op("="), G(0), Lit(1)>>, <<Op("}")>>}

\* '# 1 1'  '# 0 0'  '}'  '[ g1 v0'  '= g0 a0'  '= v1 g2'  '^ vx'
ModuleLines ==
  {<<Op("#"), Lit(1), Lit(1)>>, <<Op("#"), Lit(0), Lit(0)>>, <<Op("}")>>,
   <<Op("["), G(1), V(0)>>, <<Op("="), G(0), A(0)>>, <<Op("="), V(1), G(2)>>,
   <<Op("^"), BadV>>}

\* '# 0 0'  '}'  '^ vx'  '= g0 v1'  '# x 0'
UnitLines ==
  {<<Op("#"), Lit(0), Lit(0)>>, <<Op("}")>>, <<Op("^"), BadV>>,
   <<Op("="), G(0), V(1)>>, <<Op("#"), Junk, Lit(0)>>}

\* '= g0 10'  '+ g1 g0 5'  '. g1'
ArithLines ==
  {<<Op("="), G(0), Lit(10)>>, <<Op("+"), G(1), G(0), Lit(5)>>, <<Op("."), G(1)>>}

\* '{ g0 0 7'  '{ g0 1 9'  '{ g0 1073741824 9'  '] g1 g0 0'  '] g1 g0 1'
StoreLines ==
  {<<Op("{"), G(0), Lit(0), Lit(7)>>, <<Op("{"), G(0), Lit(1), Lit(9)>>,
   <<Op("{"), G(0), Lit(FarIndex), Lit(9)>>,
   <<Op("]"), G(1), G(0), Lit(0)>>, <<Op("]"), G(1), G(0), Lit(1)>>}

ExecBodies ==
  SeqsUpTo(FlowLines, MaxBody) \cup SeqsUpTo(HeapLines, MaxAllocs)
    \cup SeqsUpTo(ArithLines, MaxArith)
    \cup SeqsUpTo(StoreLines, MaxStores)
BlockBodies == SeqsUpTo(BlockLines, MaxBlock)
ModuleSources == SeqsUpTo(ModuleLines, MaxLines)
UnitSources == SeqsUpTo(UnitLines, MaxUnit)

\* the values a called function may return
CallResults == {0, 7}

NoReturn == [raised |-> FALSE, text |-> <<>>]
Halted == [Machine(NoVars) EXCEPT !.status = "none"]
NoRef == RefInit(NoVars)
NoProc == [pc |-> "none"]
NoIsu == [pc |-> "none"]
NoLexer == [pc |-> "none"]

\* ---------------------------------------- Spec: one transpiler object, reused
Init ==
  /\ transpiler = NewTranspiler
  /\ src = <<>>
  /\ ret = NoReturn
  /\ calls = 0
  /\ repeats = FALSE
  /\ routine = <<>>
  /\ machine = Halted
  /\ ref = NoRef
  /\ proc = NoProc
  /\ isu = NoIsu
  /\ lexer = NoLexer

\* transpiler.transpile(source)
Transpile(source) ==
  /\ calls < MaxCalls
  /\ LET r == transpile(transpiler, source) IN
       /\ transpiler' = r.self
       /\ ret' = [raised |-> r.raised, text |-> r.text]
  /\ src' = source
  /\ repeats' = (calls > 0 /\ source = src)
  /\ calls' = calls + 1
  /\ UNCHANGED <<routine, machine, ref, proc, isu, lexer>>

Next == \E source \in UnitSources : Transpile(source)

Spec == Init /\ [][Next]_vars

\* --------------------------- SpecModule: one source unit, a fresh transpiler
InitModule ==
  /\ transpiler = NewTranspiler
  /\ src \in ModuleSources
  /\ ret = NoReturn
  /\ calls = 0
  /\ repeats = FALSE
  /\ routine = <<>>
  /\ machine = Halted
  /\ ref = NoRef
  /\ proc = NoProc
  /\ isu = NoIsu
  /\ lexer = NoLexer

\* Sui2WatTranspiler().transpile(src)
Compile ==
  /\ calls = 0
  /\ LET r == transpile(transpiler, src) IN
       /\ transpiler' = r.self
       /\ ret' = [raised |-> r.raised, text |-> r.text]
  /\ calls' = 1
  /\ UNCHANGED <<src, repeats, routine, machine, ref, proc, isu, lexer>>

SpecModule == InitModule /\ [][Compile]_vars

\* ------------------------------------- SpecBlock: transpile_block on one body
InitBlock ==
  /\ transpiler = NewTranspiler
  /\ src \in BlockBodies
  /\ ret = NoReturn
  /\ calls = 0
  /\ repeats = FALSE
  /\ routine = <<>>
  /\ machine = Halted
  /\ ref = NoRef
  /\ proc = NoProc
  /\ isu = NoIsu
  /\ lexer = NoLexer

\* transpile_block(src, ...)
Block ==
  /\ calls = 0
  /\ LET text == transpile_block(src) IN
       ret' = [raised |-> Raised(text), text |-> IF Raised(text) THEN <<>> ELSE text]
  /\ calls' = 1
  /\ UNCHANGED <<transpiler, src, repeats, routine, machine, ref, proc, isu, lexer>>

SpecBlock == InitBlock /\ [][Block]_vars

\* ------------------------------- SpecExec: an emitted routine is executed
InitExec ==
  /\ transpiler = NewTranspiler
  /\ src \in ExecBodies
  /\ ret = NoReturn
  /\ calls = 0
  /\ repeats = FALSE
  /\ routine \in {function_routine(src), entry_routine(src)}
  /\ machine = Machine(NoVars)
  /\ ref = RefRun(src, RefInit(NoVars), RefFuel)
  /\ proc = NoProc
  /\ isu = NoIsu
  /\ lexer = NoLexer

\* the machine runs one line of the routine
Step ==
  /\ machine.status = "run"
  /\ \E r \in CallResults : machine' = Exec(routine, machine, r)
  /\ UNCHANGED <<transpiler, src, ret, calls, repeats, routine, ref, proc, isu, lexer>>

SpecExec == InitExec /\ [][Step]_vars

\* ------------------------------------------------- reading an emitted text
RECURSIVE NumsOf(_, _)
\* the numbers on the lines of text that carry op, in text order
NumsOf(text, op) ==
  IF text = <<>> THEN <<>>
  ELSE (IF Head(text).op = op THEN <<Head(text).n>> ELSE <<>>)
       \o NumsOf(Tail(text), op)

SeqToSet(s) == {s[i] : i \in DOMAIN s}
Ascending(s) == \A i, j \in DOMAIN s : i < j => s[i] < s[j]
UpTo(n) == [k \in 1..(n + 1) |-> k - 1]

StateOp == "(if (i32.eq (local.get $_state) (i32.const"
HasLoop(code) == \E i \in DOMAIN code : code[i].op = "(loop $loop"
LoopStart(code) == LineOf(code, "(loop $loop") + 1

\* the lines emitted inside the "(then" of state k
StateText(text, k) ==
  LET i == CHOOSE j \in DOMAIN text : text[j].op = StateOp /\ text[j].n = k
  IN SubSeq(text, i + 2, Match(text, i + 1) - 1)

\* a transition was added after the code of the instructions of state k
Synthesized(text, k, states, labels) ==
  Len(StateText(text, k)) > Len(state_lines_code(states[k], labels))

\* the labels the jump instructions of a body name
JumpTargets(body) ==
  {At(body[i], 1).n : i \in {j \in DOMAIN body : body[j][1].s = "@"}}
  \cup {At(body[i], 2).n : i \in {j \in DOMAIN body : body[j][1].s = "?"}}

\* a body with labels, each marked once, that jumps to marked labels only
WellFormed(body) ==
  /\ collect_labels(body) # {}
  /\ \A l \in collect_labels(body) : Cardinality(RefMarkers(body, l)) = 1
  /\ JumpTargets(body) \subseteq collect_labels(body)

Finished == machine.status \in {"end", "returned"}

SameGlobals ==
  \A i \in DOMAIN machine.globals \cup DOMAIN ref.globals :
    Get(machine.globals, i) = Get(ref.globals, i)

\* ------------------------------------------------------------------- claims
\* C1: executing the emitted dispatch loop refines the body's goto semantics:
\* for a body whose labels are each marked once and whose jumps name marked
\* labels, a finished run of the emitted routine has the result, the globals
\* and the printed values of the body run in source order (start at the first
\* instruction, a jump continues after its label's marker, the end of a state
\* continues with the next instruction in source order).
C1_DispatchRefinesGoto ==
  (WellFormed(src) /\ ref.done /\ ref.defined /\ Finished)
    => /\ machine.result = ref.result
       /\ machine.printed = ref.printed
       /\ SameGlobals

\* C2: the labels of a body are numbered 1..N in ascending order of their
\* numeric id, whatever their textual order, and the states 0..N are emitted
\* in ascending order of state number; labels {5, 2, 9} get 2->1, 5->2, 9->3.
C2_StateNumbering ==
  (calls = 1 /\ ~ret.raised /\ collect_labels(src) # {}) =>
    LET labels == collect_labels(src)
        N == Cardinality(labels)
        rank(l) == Cardinality({x \in labels : x <= l})
    IN /\ \A l \in labels : state_map(labels)[l] = rank(l)
       /\ NumsOf(ret.text, ";; State") = UpTo(N)
       /\ NumsOf(ret.text, StateOp) = UpTo(N)
       /\ \A l \in JumpTargets(src) \cap labels :
            rank(l) \in SeqToSet(NumsOf(ret.text, set_state(0).op))
       /\ labels = {2, 5, 9} =>
            state_map(labels) = (2 :> 1) @@ (5 :> 2) @@ (9 :> 3)

\* markers ': 5', ': 2', ': 9' in that textual order: states 0..3 emitted
C2_Witness ==
  /\ calls = 1
  /\ src = <<(<<Op(":"), Lit(5)>>), (<<Op(":"), Lit(2)>>), (<<Op(":"), Lit(9)>>)>>
  /\ NumsOf(ret.text, ";; State") = <<0, 1, 2, 3>>

\* C3: whenever the dispatch loop restarts, $_state holds a value in 0..N,
\* the id of a state emitted for this body.
C3_StateInRange ==
  (HasLoop(routine) /\ machine.status = "run"
     /\ machine.pc = LoopStart(routine)) =>
    /\ machine.state \in 0..Cardinality(collect_labels(src))
    /\ machine.state \in SeqToSet(NumsOf(routine, ";; State"))

\* '! g0 g0', ': 1', '@ 3': the loop restarts in state 0 after the jump to
\* the unmarked label 3 (g0 is 1 by then)
C3_Witness ==
  /\ src = <<(<<Op("!"), G(0), G(0)>>), (<<Op(":"), Lit(1)>>), (<<Op("@"), Lit(3)>>)>>
  /\ machine.status = "run"
  /\ machine.pc = LoopStart(routine)
  /\ machine.state = 0
  /\ Get(machine.globals, 0) = 1

\* C4 (as stated): a fallthrough transition is emitted for a state exactly
\* when its last instruction is not a return or an unconditional jump (an
\* empty state counts as ending without one).
C4_FallthroughByLastInstruction ==
  (calls = 1 /\ ~ret.raised /\ collect_labels(src) # {}) =>
    LET labels == collect_labels(src)
        states == partition_states(src, labels)
    IN \A k \in DOMAIN states :
         Synthesized(ret.text, k, states, labels)
           <=> ~(/\ states[k] # <<>>
                 /\ states[k][Len(states[k])][1].s \in {"@", "^"})

\* C4 (amended): a fallthrough transition is emitted for a state exactly when
\* no instruction of the state, at any position, is a return or an
\* unconditional jump.
C4_FallthroughByAnyInstruction ==
  (calls = 1 /\ ~ret.raised /\ collect_labels(src) # {}) =>
    LET labels == collect_labels(src)
        states == partition_states(src, labels)
    IN \A k \in DOMAIN states :
         Synthesized(ret.text, k, states, labels)
           <=> ~(\E i \in DOMAIN states[k] : states[k][i][1].s \in {"@", "^"})

\* ': 2', '@ 2', '= g0 1': state 1 ends with an assignment after a jump and
\* has no fallthrough transition
C4_Witness ==
  /\ calls = 1
  /\ src = <<(<<Op(":"), Lit(2)>>), (<<Op("@"), Lit(2)>>), (<<Op("="), G(0), Lit(1)>>)>>
  /\ ~Synthesized(ret.text, 1, partition_states(src, {2}), {2})

\* C5: a routine that reaches the end of its body without a return yields 0
\* (also when it leaves the dispatch loop); a routine that executes '^ x'
\* yields the value of x and stops at that return.
C5_Result ==
  /\ machine.status = "end" => machine.result = 0
  /\ machine.status = "returned" =>
       /\ routine[machine.pc].op = "(return)"
       /\ \E i \in DOMAIN src :
            /\ src[i][1].s = "^"
            /\ machine.result = RefVal(At(src[i], 1), machine)

\* a body with labels left the dispatch loop with g0 = 1 and yielded 0
C5_Witness ==
  /\ HasLoop(routine)
  /\ machine.status = "end"
  /\ Get(machine.globals, 0) = 1
  /\ machine.result = 0

C7_NoCarryOver ==
  (calls >= 1 /\ ~ret.raised) =>
    ret.text = transpile(NewTranspiler, src).text

\* the lines of the module head that declare the memory and the heap pointer
MemoryLines(text) ==
  {i \in DOMAIN text : text[i].op = "(memory 1)"}
HeapPtrLines(text) ==
  {i \in DOMAIN text : text[i].op = "(global $heap_ptr (mut i32) (i32.const 0))"}

ArrayLines(lines) == {i \in DOMAIN lines : lines[i][1].s \in {"[", "]", "{"}}

\* C8: the module declares its linear memory and its heap-pointer global
\* exactly when an array opcode ('[', ']' or '{') is the opcode of some line
\* of the source, in a function body or in the entry code.
C8_MemoryIffArrayOp ==
  (calls = 1 /\ ~ret.raised) =>
    /\ MemoryLines(ret.text) # {} <=> ArrayLines(src) # {}
    /\ HeapPtrLines(ret.text) # {} <=> ArrayLines(src) # {}
    /\ Cardinality(MemoryLines(ret.text)) <= 1
    /\ Cardinality(HeapPtrLines(ret.text)) <= 1

\* '# 1 1', '# 0 0', '[ g1 v0': the only array opcode is inside a nested
\* function span
C8_Witness ==
  /\ calls = 1
  /\ ~ret.raised
  /\ src = <<(<<Op("#"), Lit(1), Lit(1)>>), (<<Op("#"), Lit(0), Lit(0)>>), (<<Op("["), G(1), V(0)>>)>>
  /\ MemoryLines(ret.text) # {}
  /\ HeapPtrLines(ret.text) # {}

\* the indices the operands of lines carry behind the sigil c
Referenced(lines, c) ==
  UNION {{lines[i][j].n : j \in {k \in 2..Len(lines[i]) :
             lines[i][k].s = c /\ lines[i][k].ok}} : i \in DOMAIN lines}

GlobalOp == "(global $g (export g) (mut i32) (i32.const 0))"
MainOp == "(func $main (export main) (result i32)"

\* the emitted lines of function func_id, and of the entry routine
FunctionText(text, func_id) ==
  LET i == CHOOSE j \in DOMAIN text :
             text[j].op = func_header(0, 0).op /\ text[j].n = func_id
  IN SubSeq(text, i, Match(text, i))
MainText(text) ==
  SubSeq(text, LineOf(text, MainOp), Match(text, LineOf(text, MainOp)))

\* C9: every global referenced as an operand is declared once at module
\* level, in ascending index order; every local referenced in a function or
\* in the entry code is declared once in that routine, in ascending index
\* order; no variable that is never referenced is declared.
C9_DeclaredOnce ==
  (calls = 1 /\ ~ret.raised) =>
    LET functions == collect_functions(src, 1, NoFunctions).functions
        main_lines == collect_main(src, 1, <<>>)
    IN /\ Ascending(NumsOf(ret.text, GlobalOp))
       /\ SeqToSet(NumsOf(ret.text, GlobalOp)) = Referenced(src, "g")
       /\ \A id \in DOMAIN functions :
            LET decls == NumsOf(FunctionText(ret.text, id), "(local $v")
            IN /\ Ascending(decls)
               /\ SeqToSet(decls) = Referenced(functions[id].body, "v")
       /\ LET decls == NumsOf(MainText(ret.text), "(local $v")
          IN /\ Ascending(decls)
             /\ SeqToSet(decls) = Referenced(main_lines, "v")

\* '# 0 0', '= v1 g2', '[ g1 v0': v1 and g2 come first in the text of
\* function 0, and the declarations are g1, g2 and v0, v1
C9_Witness ==
  /\ calls = 1
  /\ ~ret.raised
  /\ src = <<(<<Op("#"), Lit(0), Lit(0)>>), (<<Op("="), V(1), G(2)>>), (<<Op("["), G(1), V(0)>>)>>
  /\ NumsOf(ret.text, GlobalOp) = <<1, 2>>
  /\ NumsOf(FunctionText(ret.text, 0), "(local $v") = <<0, 1>>

\* C10: an array-allocate of size n stores the heap pointer it finds in its
\* destination and then advances the heap pointer by exactly 4 * n: a body
\* of allocations and assignments run to its end leaves the heap pointer and
\* the globals the instructions give when run one by one (from 0, sizes 3
\* then 2 leave 20, the destinations holding 0 and 12).
C10_AllocAdvances ==
  (collect_labels(src) = {} /\ ref.done /\ ref.defined
     /\ machine.status = "end") =>
    /\ machine.heap_ptr = ref.heap_ptr
    /\ SameGlobals

\* C11: the heap pointer never decreases: no executed instruction, and so no
\* array-allocate with any size operand (literal or variable, zero or
\* negative), leaves the heap pointer below the value it had before.
C11_HeapMonotonic ==
  [][machine'.heap_ptr >= machine.heap_ptr]_vars

ImportOp == "(import env print_i32 (func $print_i32 (param i32)))"
FuncOp == func_header(0, 0).op
LinesOf(text, op) == {i \in DOMAIN text : text[i].op = op}
Before(I, J) == \A i \in I, j \in J : i < j

\* C12: the module is emitted in the fixed order: the print import; then,
\* only when memory is required, the memory declaration and the heap-pointer
\* global initialised to 0; then the global declarations in ascending index
\* order; then the function definitions in ascending function-id order,
\* whatever their order in the source; then the entry routine, last.
C12_ModuleOrder ==
  (calls = 1 /\ ~ret.raised) =>
    LET t == ret.text
        imp == LinesOf(t, ImportOp)
        mem == MemoryLines(t)
        hp == HeapPtrLines(t)
        gl == LinesOf(t, GlobalOp)
        fn == LinesOf(t, FuncOp)
        mn == LinesOf(t, MainOp)
    IN /\ t[1].op = "(module"
       /\ Cardinality(imp) = 1 /\ Cardinality(mn) = 1
       /\ Before(imp, mem \cup hp \cup gl \cup fn \cup mn)
       /\ Before(mem, hp)
       /\ Before(mem \cup hp, gl \cup fn \cup mn)
       /\ Before(gl, fn \cup mn)
       /\ Before(fn, mn)
       /\ Ascending(NumsOf(t, GlobalOp))
       /\ Ascending(NumsOf(t, FuncOp))
       /\ SeqToSet(NumsOf(t, FuncOp))
            = DOMAIN collect_functions(src, 1, NoFunctions).functions
       /\ Match(t, LineOf(t, MainOp)) = Len(t) - 1
       /\ t[Len(t)].op = ")"

\* '# 1 1', '[ g1 v0', '}', '# 0 0': function 1 comes first in the source and
\* second in the module, after the memory, the heap pointer and global g1
C12_Witness ==
  /\ calls = 1
  /\ ~ret.raised
  /\ src = <<(<<Op("#"), Lit(1), Lit(1)>>), (<<Op("["), G(1), V(0)>>),
             (<<Op("}")>>), (<<Op("#"), Lit(0), Lit(0)>>)>>
  /\ MemoryLines(ret.text) # {}
  /\ NumsOf(ret.text, GlobalOp) = <<1>>
  /\ NumsOf(ret.text, FuncOp) = <<0, 1>>

\* ------------------------------------------- the function spans of a source
HashLines(lines, a, b) == {k \in a..b : lines[k][1].s = "#"}
CloseLines(lines, a, b) == {k \in a..b : lines[k][1].s = "}"}

\* the '}' that returns the depth to zero after the '#' at line i, or
\* Len(lines) + 1 when the input ends first
SpanEnd(lines, i) ==
  LET closes == {j \in (i + 1)..Len(lines) :
                   /\ lines[j][1].s = "}"
                   /\ Cardinality(CloseLines(lines, i + 1, j))
                        = Cardinality(HashLines(lines, i + 1, j)) + 1}
  IN IF closes = {} THEN Len(lines) + 1
     ELSE CHOOSE j \in closes : \A k \in closes : j <= k

RECURSIVE Spans(_, _)
\* the spans <<begin, end>> that start at depth 0, from line i on
Spans(lines, i) ==
  LET starts == HashLines(lines, i, Len(lines)) IN
  IF starts = {} THEN {}
  ELSE LET b == CHOOSE k \in starts : \A j \in starts : k <= j
       IN {<<b, SpanEnd(lines, b)>>} \cup Spans(lines, SpanEnd(lines, b) + 1)

RECURSIVE Pick(_, _)
\* the lines of a source at the indices of I, in original order
Pick(lines, I) ==
  IF I = {} THEN <<>>
  ELSE LET k == CHOOSE x \in I : \A y \in I : x <= y
       IN <<lines[k]>> \o Pick(lines, I \ {k})

\* the indices outside every span
Outside(lines) ==
  {k \in DOMAIN lines :
     \A sp \in Spans(lines, 1) : k < sp[1] \/ k > sp[2]}

\* C13: the splitter partitions the parsed lines: every '#' line at depth 0
\* starts one function whose body is exactly the lines that follow it (nested
\* '#' and '}' lines included) up to, and excluding, the '}' that returns the
\* depth to zero; the lines outside every span are the entry body, in
\* original order; no line is in both; and the function pass and the entry
\* pass stop every span at the same line.
C13_Partition ==
  (calls = 1 /\ ~collect_functions(src, 1, NoFunctions).raised) =>
    LET spans == Spans(src, 1)
        functions == transpiler.functions
        main_lines == collect_main(src, 1, <<>>)
        last(sp) == \A other \in spans :
                       src[other[1]][2].n = src[sp[1]][2].n => other[1] <= sp[1]
    IN /\ DOMAIN functions = {src[sp[1]][2].n : sp \in spans}
       /\ \A sp \in spans :
            /\ last(sp) =>
                 /\ functions[src[sp[1]][2].n].body
                      = SubSeq(src, sp[1] + 1, sp[2] - 1)
                 /\ functions[src[sp[1]][2].n].argc = src[sp[1]][3].n
            /\ LET r == scan_body(src, sp[1] + 1, 1, <<>>)
               IN /\ r.body = SubSeq(src, sp[1] + 1, sp[2] - 1)
                  /\ r.i = sp[2]
                  /\ skip_span(src, sp[1] + 1, 1)
                       = (IF sp[2] > Len(src) THEN sp[2] ELSE sp[2] + 1)
       /\ main_lines = Pick(src, Outside(src))
       /\ \A k \in DOMAIN src :
            Cardinality({sp \in spans : sp[1] <= k /\ k <= sp[2]})
              = (IF k \in Outside(src) THEN 0 ELSE 1)

\* '# 1 1', '# 0 0', '}', '}': function 1 holds the nested span as its body
\* and the entry body is empty
C13_Witness ==
  /\ calls = 1
  /\ src = <<(<<Op("#"), Lit(1), Lit(1)>>), (<<Op("#"), Lit(0), Lit(0)>>),
             (<<Op("}")>>), (<<Op("}")>>)>>
  /\ DOMAIN transpiler.functions = {1}
  /\ transpiler.functions[1].body = <<(<<Op("#"), Lit(0), Lit(0)>>), (<<Op("}")>>)>>
  /\ collect_main(src, 1, <<>>) = <<>>

\* two function definitions of the source carry the same function id
DuplicateIds(lines) ==
  \E sp, other \in Spans(lines, 1) :
    /\ sp[1] < other[1]
    /\ IsInt(At(lines[sp[1]], 1)) /\ IsInt(At(lines[other[1]], 1))
    /\ lines[sp[1]][2].n = lines[other[1]][2].n

\* a function-begin line has no matching end marker before the end of input
Unbalanced(lines) == \E sp \in Spans(lines, 1) : sp[2] > Len(lines)

\* C14: a source in which two function definitions share a function id is
\* rejected: transpile ends in an error instead of returning a module in
\* which the later definition replaced the earlier one.
C14_DuplicateRejected ==
  (calls = 1 /\ DuplicateIds(src)) => ret.raised

\* C15: a source with a function-begin line whose end marker is missing is
\* rejected before any module text is emitted: transpile ends in an error
\* and no line has been appended to the output.
C15_UnbalancedRejected ==
  (calls = 1 /\ Unbalanced(src)) => (ret.raised /\ transpiler.output = <<>>)

\* ------------------------------- SpecResolve: resolve_value on one operand
\* v<i> g<i> a<i>, 'vx' 'gx' 'ax', a quoted string, tokens with a '.' that
\* float() accepts or not, integer literals, and other text
Operands ==
  {V(i) : i \in 0..MaxIndex} \cup {G(i) : i \in 0..MaxIndex}
  \cup {A(i) : i \in 0..MaxIndex}
  \cup {BadV, Tok("g", FALSE, 0), Tok("a", FALSE, 0), Quoted, Junk,
        Tok("f", FALSE, 0)}
  \cup {Tok("f", TRUE, n) : n \in (-MaxIndex)..MaxIndex}
  \cup {Lit(n) : n \in (-MaxIndex)..MaxIndex}

InitResolve ==
  /\ transpiler = NewTranspiler
  /\ src \in {<<(<<Op("."), t>>)>> : t \in Operands}
  /\ ret = NoReturn
  /\ calls = 0
  /\ repeats = FALSE
  /\ routine = <<>>
  /\ machine = Halted
  /\ ref = NoRef
  /\ proc = NoProc
  /\ isu = NoIsu
  /\ lexer = NoLexer

\* self.resolve_value(tokens[1])
Resolve ==
  /\ calls = 0
  /\ LET val_code == resolve_value(At(src[1], 1)) IN
       ret' = [raised |-> val_code = Raise,
               text |-> IF val_code = Raise THEN <<>> ELSE <<val_code>>]
  /\ calls' = 1
  /\ UNCHANGED <<transpiler, src, repeats, routine, machine, ref, proc, isu, lexer>>

SpecResolve == InitResolve /\ [][Resolve]_vars

\* C16: resolving an operand never fails: no operand makes resolve_value
\* raise, and every operand that is not an integer, not a float and not a
\* sigil followed by an index resolves to the constant 0.
C16_ResolveNeverFails ==
  calls = 1 =>
    /\ ~ret.raised
    /\ ~At(src[1], 1).ok => ret.text = <<Ln("(i32.const", 0)>>

\* the label a jump instruction names ('@ L' or '? c L')
JumpLabel(tokens) ==
  IF tokens[1].s = "@" THEN At(tokens, 1).n ELSE At(tokens, 2).n

\* the positions in code of the "(br $loop)" lines emitted for the jump
\* instructions of body whose label no marker of body defines
UndefinedJumpBranches(code, body) ==
  LET labels == collect_labels(body)
      states == partition_states(body, labels)
      first(k) == 2 + CHOOSE j \in DOMAIN code :
                        code[j].op = StateOp /\ code[j].n = k
      before(k, m) == Len(state_lines_code(SubSeq(states[k], 1, m - 1), labels))
  IN UNION {{first(k) + before(k, m)
               + (IF states[k][m][1].s = "@" THEN 1 ELSE 4) :
             m \in {x \in DOMAIN states[k] :
                      /\ states[k][x][1].s \in {"@", "?"}
                      /\ JumpLabel(states[k][x]) \notin labels}} :
            k \in DOMAIN states}

\* C17: in a body with labels, a conditional or unconditional jump to a label
\* that no marker of the body defines compiles without error, and when the
\* jump is taken the dispatch loop restarts in state 0.
C17_UndefinedJumpToZero ==
  [][(collect_labels(src) # {} /\ machine.status = "run"
        /\ machine.pc \in UndefinedJumpBranches(routine, src))
       => /\ ~Raised(routine)
          /\ routine[machine.pc].op = "(br $loop)"
          /\ machine'.status = "run"
          /\ machine'.pc = LoopStart(routine)
          /\ machine'.state = 0]_vars

\* ': 1', '! g0 g0', '? g0 2': the conditional jump to the unmarked label 2
\* was taken (g0 is 1) and the loop restarted in state 0
C17_Witness ==
  /\ src = <<(<<Op(":"), Lit(1)>>), (<<Op("!"), G(0), G(0)>>),
             (<<Op("?"), G(0), Lit(2)>>)>>
  /\ machine.status = "run"
  /\ machine.pc = LoopStart(routine)
  /\ machine.state = 0
  /\ Get(machine.globals, 0) = 1

\* --------------- SpecWasm: the command line of sui2wasm (main, compile_to_wasm)
\* The process runs  sui2wasm argv ; its environment decides whether the
\* input file exists, whether the temporary file can be written, whether the
\* assembler wat2wasm is installed, its exit status and diagnostic text, and
\* whether it left a binary behind.
Diagnostics == {"error: unexpected token", "error: type mismatch"}

Argvs ==
  {<<>>, <<"-h">>, <<"in.sui">>, <<"in.sui", "-o">>, <<"in.sui", "-o", "out.wasm">>}

\* the sources an input file may hold
WasmSources == SeqsUpTo(UnitLines, MaxInput)

Env(tmp_ok, tool_present, returncode, stderr, wasm_written) ==
  [tmp_ok |-> tmp_ok, tool_present |-> tool_present, returncode |-> returncode,
   stderr |-> stderr, wasm_written |-> wasm_written]

Envs ==
  {Env(FALSE, TRUE, 0, "", FALSE), Env(TRUE, FALSE, 0, "", FALSE),
   Env(TRUE, TRUE, 0, "", TRUE), Env(TRUE, TRUE, 0, "", FALSE)}
  \cup {Env(TRUE, TRUE, 1, d, FALSE) : d \in Diagnostics}

Msg(head, text) == [head |-> head, text |-> text]
Hint == Msg("Error: wat2wasm not found. Install wabt: brew install wabt", "")

None == [none |-> TRUE, wat |-> <<>>]
\* the binary the assembler makes of a text
Bytes(wat_code) == [none |-> FALSE, wat |-> wat_code]
NoFile == [path |-> "", bytes |-> None]

\* a mutant of assemble: the exit status of the assembler is not looked at
assemble_unchecked(wat_code, env) ==
  IF ~env.tmp_ok THEN [value |-> None, stderr |-> <<Msg("Error: ", "OSError")>>]
  ELSE IF ~env.tool_present THEN [value |-> None, stderr |-> <<Hint>>]
  ELSE IF ~env.wasm_written THEN [value |-> None, stderr |-> <<Hint>>]
  ELSE [value |-> Bytes(wat_code), stderr |-> <<>>]

\* the try block of compile_to_wasm: what it returns and what it prints on
\* the error stream
assemble(wat_code, env) ==
  IF ~env.tmp_ok THEN [value |-> None, stderr |-> <<Msg("Error: ", "OSError")>>]
  ELSE IF ~env.tool_present THEN [value |-> None, stderr |-> <<Hint>>]
  ELSE IF env.returncode # 0
    THEN [value |-> None,
          stderr |-> <<Msg("Error: wat2wasm failed: ", env.stderr)>>]
  ELSE IF ~env.wasm_written THEN [value |-> None, stderr |-> <<Hint>>]
  ELSE [value |-> Bytes(wat_code), stderr |-> <<>>]

\* output_file of main
output_path(argv) ==
  IF \E idx \in DOMAIN argv : argv[idx] = "-o" /\ idx + 1 <= Len(argv)
  THEN argv[1 + CHOOSE idx \in DOMAIN argv :
                  /\ argv[idx] = "-o"
                  /\ \A j \in DOMAIN argv : argv[j] = "-o" => idx <= j]
  ELSE "in.wasm"

InitWasm ==
  /\ transpiler = NewTranspiler
  /\ src = <<>>
  /\ ret = NoReturn
  /\ calls = 0
  /\ repeats = FALSE
  /\ routine = <<>>
  /\ machine = Halted
  /\ ref = NoRef
  /\ isu = NoIsu
  /\ lexer = NoLexer
  /\ \E argv \in Argvs, found \in BOOLEAN, code \in WasmSources, env \in Envs :
       /\ ~found => code = <<>>
       /\ proc = [pc |-> "main", argv |-> argv, found |-> found, input |-> code,
                  env |-> env, sui_code |-> <<>>, wat_code |-> <<>>,
                  raised |-> FALSE, returned |-> FALSE, wasm_bytes |-> None,
                  stderr |-> <<>>, output_file |-> NoFile, exit |-> "running"]

\* main: the command line
MainArgs ==
  /\ proc.pc = "main"
  /\ proc' =
       IF proc.argv = <<>> \/ proc.argv[1] \in {"-h", "--help"}
       THEN [proc EXCEPT !.pc = "exited",
               !.exit = IF \E i \in DOMAIN proc.argv : proc.argv[i] \in {"-h", "--help"}
                        THEN 0 ELSE 1]
       ELSE [proc EXCEPT !.pc = "read"]
  /\ UNCHANGED <<transpiler, src, ret, calls, repeats, routine, machine, ref, isu, lexer>>

\* main: the input file is read
MainRead ==
  /\ proc.pc = "read"
  /\ proc' =
       IF proc.found
       THEN [proc EXCEPT !.pc = "transpile", !.sui_code = proc.input]
       ELSE [proc EXCEPT !.pc = "exited", !.exit = 1,
               !.stderr = Append(@, Msg("Error: File not found: ", proc.argv[1]))]
  /\ UNCHANGED <<transpiler, src, ret, calls, repeats, routine, machine, ref, isu, lexer>>

\* compile_to_wasm: a fresh transpiler makes the text; an exception of
\* transpile is caught nowhere and ends the process
WasmTranspile ==
  /\ proc.pc = "transpile"
  /\ LET r == transpile(NewTranspiler, proc.sui_code) IN
       proc' = IF r.raised
               THEN [proc EXCEPT !.pc = "exited", !.raised = TRUE, !.exit = 1]
               ELSE [proc EXCEPT !.pc = "assemble", !.wat_code = r.text]
  /\ UNCHANGED <<transpiler, src, ret, calls, repeats, routine, machine, ref, isu, lexer>>

\* compile_to_wasm: the temporary file, the assembler, its binary
Assemble ==
  /\ proc.pc = "assemble"
  /\ LET r == assemble(proc.wat_code, proc.env) IN
       proc' = [proc EXCEPT !.pc = "write", !.returned = TRUE,
                            !.wasm_bytes = r.value, !.stderr = @ \o r.stderr]
  /\ UNCHANGED <<transpiler, src, ret, calls, repeats, routine, machine, ref, isu, lexer>>

\* main: after compile_to_wasm returned
MainWrite ==
  /\ proc.pc = "write"
  /\ proc' =
       IF proc.wasm_bytes.none
       THEN [proc EXCEPT !.pc = "exited", !.exit = 1]
       ELSE [proc EXCEPT !.pc = "exited", !.exit = 0,
               !.output_file = [path |-> output_path(proc.argv),
                                bytes |-> proc.wasm_bytes]]
  /\ UNCHANGED <<transpiler, src, ret, calls, repeats, routine, machine, ref, isu, lexer>>

NextWasm == MainArgs \/ MainRead \/ WasmTranspile \/ Assemble \/ MainWrite

SpecWasm == InitWasm /\ [][NextWasm]_vars

Printed(msg) == \E i \in DOMAIN proc.stderr : proc.stderr[i] = msg
Failed(text) == Msg("Error: wat2wasm failed: ", text)

\* C18: compile_to_wasm returns the binary only when the assembler ran and
\* exited with status zero; after a non-zero exit it returns nothing and the
\* message printed holds the assembler's diagnostic text; when the assembler
\* is not installed it returns nothing and the message is a different one
\* that holds the installation hint; and whenever compilation failed main
\* exits, with a non-zero status, without writing the output file.
C18_AssemblerOutcome ==
  proc.pc # "none" =>
    LET ran == proc.returned /\ proc.env.tmp_ok /\ proc.env.tool_present
        failure == proc.raised \/ (proc.returned /\ proc.wasm_bytes.none)
    IN /\ ~proc.wasm_bytes.none =>
            /\ ran /\ proc.env.returncode = 0
            /\ proc.wasm_bytes = Bytes(transpile(NewTranspiler, proc.input).text)
       /\ (ran /\ proc.env.returncode # 0) =>
            /\ proc.wasm_bytes.none
            /\ Printed(Failed(proc.env.stderr))
            /\ ~Printed(Hint)
       /\ (proc.returned /\ proc.env.tmp_ok /\ ~proc.env.tool_present) =>
            /\ proc.wasm_bytes.none
            /\ Printed(Hint)
            /\ \A d \in Diagnostics \cup {""} : ~Printed(Failed(d))
       /\ failure =>
            /\ proc.output_file = NoFile
            /\ proc.pc = "exited" => proc.exit = 1
       /\ proc.output_file # NoFile =>
            /\ ~failure
            /\ proc.output_file.bytes = proc.wasm_bytes

\* the assembler rejected the text of 'in.sui': main exited with status 1,
\* the diagnostic is on the error stream, out.wasm was not written
C18_Witness ==
  /\ proc.pc = "exited"
  /\ proc.argv = <<"in.sui", "-o", "out.wasm">>
  /\ proc.returned
  /\ proc.env.returncode = 1
  /\ Printed(Failed("error: type mismatch"))
  /\ proc.exit = 1
  /\ proc.output_file = NoFile

\* =========================================================== Isu (src/isu)
\* An Isu text is the value of META's AUTO_ID and the lines of STEPS between
\* 'SEQ: BEGIN' and 'END'. A scalar or atom as written is its characters s
\* and whether it stands in double quotes; a parsed value is its Python type
\* t and its characters. Step IDs: k > 0 is 'S<k>', 0 is no ID (None), -1 is
\* the text 'S?'.
Atom(q, s) == [q |-> q, s |-> s]
Val(t, s) == [t |-> t, s |-> s]

\* what int() accepts and what holds whitespace, among the texts used
is_int(s) == s \in {"1", "2", "3"}
has_space(s) == s \in {"a b"}

\* _parse_scalar of parser.py and _parse_atom of sexpr.py
parse_scalar(tok) ==
  IF tok.q THEN Val("str", tok.s)
  ELSE IF tok.s \in {"true", "false"} THEN Val("bool", tok.s)
  ELSE IF is_int(tok.s) THEN Val("int", tok.s)
  ELSE Val("str", tok.s)

parse_atom(tok) == parse_scalar(tok)

\* _scalar_to_str
scalar_to_str(v) ==
  IF v.t \in {"bool", "int"} THEN Atom(FALSE, v.s)
  ELSE IF v.s = "" \/ has_space(v.s) THEN Atom(TRUE, v.s)
  ELSE Atom(FALSE, v.s)

\* bool(program.meta.get("AUTO_ID", False))
truthy(v) ==
  IF v.t = "bool" THEN v.s = "true"
  ELSE IF v.t = "int" THEN v.s # "0"
  ELSE v.s # ""

\* an expression: its operator and its atoms, written or parsed
Expr(kind, args) == [kind |-> kind, args |-> args]
NoExpr == Expr("", <<>>)
NoTok == Atom(FALSE, "")

\* parse_expr and _expr_to_str, atom by atom
parse_expr(e) == Expr(e.kind, [i \in DOMAIN e.args |-> parse_atom(e.args[i])])
expr_to_str(e) == Expr(e.kind, [i \in DOMAIN e.args |-> scalar_to_str(e.args[i])])

\* the lines of STEPS
IsuLine(k, id, node, key, tok, expr) ==
  [k |-> k, id |-> id, node |-> node, key |-> key, tok |-> tok, expr |-> expr]
HeadLn(id, node) == IsuLine("head", id, node, "", NoTok, NoExpr)
FieldLn(key, tok) == IsuLine("scalar", 0, "", key, tok, NoExpr)
ExprLn(key, expr) == IsuLine("expr", 0, "", key, NoTok, expr)
BeginLn(key) == IsuLine("begin", 0, "", key, NoTok, NoExpr)
EndLn == IsuLine("end", 0, "", "", NoTok, NoExpr)

Stmt(kind, step_id, data) == [kind |-> kind, step_id |-> step_id, data |-> data]

IsuParseError == [err |-> TRUE]

\* _parse_stmt_head: 'S<k>: NODE', or 'NODE:'
parse_stmt_head(line) ==
  IF line.k # "head" \/ line.id < 0 THEN IsuParseError
  ELSE [err |-> FALSE, step_id |-> line.id, node |-> line.node]

parse_required_scalar_field(lines, i, field) ==
  IF i > Len(lines) THEN IsuParseError
  ELSE IF lines[i].k # "scalar" \/ lines[i].key # field THEN IsuParseError
  ELSE [err |-> FALSE, val |-> parse_scalar(lines[i].tok), i |-> i + 1]

parse_required_expr_field(lines, i, field) ==
  IF i > Len(lines) THEN IsuParseError
  ELSE IF lines[i].k # "expr" \/ lines[i].key # field THEN IsuParseError
  ELSE [err |-> FALSE, expr |-> parse_expr(lines[i].expr), i |-> i + 1]

RECURSIVE parse_stmt_list(_, _, _)
RECURSIVE parse_stmt(_, _)
RECURSIVE parse_required_block(_, _, _)

\* _parse_stmt_list, i 1-based
parse_stmt_list(lines, start, until_end) ==
  IF start > Len(lines) THEN
    (IF until_end THEN IsuParseError
     ELSE [err |-> FALSE, stmts |-> <<>>, i |-> start])
  ELSE IF lines[start].k = "end" THEN
    (IF until_end THEN [err |-> FALSE, stmts |-> <<>>, i |-> start + 1]
     ELSE IsuParseError)
  ELSE LET r == parse_stmt(lines, start) IN
    IF r.err THEN IsuParseError
    ELSE LET rest == parse_stmt_list(lines, r.i, until_end) IN
      IF rest.err THEN IsuParseError
      ELSE [err |-> FALSE, stmts |-> <<r.stmt>> \o rest.stmts, i |-> rest.i]

\* _parse_required_block
parse_required_block(lines, i, field) ==
  IF i > Len(lines) THEN IsuParseError
  ELSE IF lines[i].k # "begin" \/ lines[i].key # field THEN IsuParseError
  ELSE parse_stmt_list(lines, i + 1, TRUE)

\* _parse_stmt (with _parse_assign)
parse_stmt(lines, i) ==
  LET h == parse_stmt_head(lines[i]) IN
  IF h.err THEN IsuParseError
  ELSE IF h.node = "ASSIGN" THEN
    LET target == parse_required_scalar_field(lines, i + 1, "TARGET") IN
    IF target.err THEN IsuParseError
    ELSE LET expr == parse_required_expr_field(lines, target.i, "EXPR") IN
      IF expr.err \/ target.val.t # "str" THEN IsuParseError
      ELSE [err |-> FALSE, i |-> expr.i,
            stmt |-> Stmt("assign", h.step_id,
                          [target |-> target.val, expr |-> expr.expr])]
  ELSE IF h.node = "RETURN" THEN
    LET expr == parse_required_expr_field(lines, i + 1, "EXPR") IN
    IF expr.err THEN IsuParseError
    ELSE [err |-> FALSE, i |-> expr.i,
          stmt |-> Stmt("return", h.step_id, [expr |-> expr.expr])]
  ELSE IF h.node = "IF" THEN
    LET cond == parse_required_expr_field(lines, i + 1, "COND") IN
    IF cond.err THEN IsuParseError
    ELSE LET then_block == parse_required_block(lines, cond.i, "THEN") IN
      IF then_block.err THEN IsuParseError
      ELSE LET else_block == parse_required_block(lines, then_block.i, "ELSE") IN
        IF else_block.err THEN IsuParseError
        ELSE [err |-> FALSE, i |-> else_block.i,
              stmt |-> Stmt("if", h.step_id,
                            [cond |-> cond.expr, then |-> then_block.stmts,
                             else |-> else_block.stmts])]
  ELSE IF h.node = "LOOP" THEN
    LET iter_val == parse_required_scalar_field(lines, i + 1, "ITER") IN
    IF iter_val.err THEN IsuParseError
    ELSE LET body_block == parse_required_block(lines, iter_val.i, "BODY") IN
      IF body_block.err THEN IsuParseError
      ELSE [err |-> FALSE, i |-> body_block.i,
            stmt |-> Stmt("loop", h.step_id,
                          [iter |-> iter_val.val, body |-> body_block.stmts])]
  ELSE IsuParseError

\* _parse_steps, on the lines between 'SEQ: BEGIN' and the last 'END'
parse_steps(body_lines) ==
  LET r == parse_stmt_list(body_lines, 1, FALSE) IN
  IF r.err THEN IsuParseError
  ELSE IF r.i # Len(body_lines) + 1 THEN IsuParseError
  ELSE [err |-> FALSE, steps |-> Stmt("seq", 0, [stmts |-> r.stmts])]

\* a mutant of assign_id: with AUTO_ID every statement is numbered, an
\* explicit Step ID is overwritten
assign_id_always(step_id, auto_id, n) ==
  IF auto_id THEN [step_id |-> n + 1, n |-> n + 1]
  ELSE [step_id |-> step_id, n |-> n]

\* next_id and the step_id choice of walk: the counter n is incremented,
\* then named
assign_id(step_id, auto_id, n) ==
  IF step_id = 0 /\ auto_id THEN [step_id |-> n + 1, n |-> n + 1]
  ELSE [step_id |-> step_id, n |-> n]

RECURSIVE walk(_, _, _)
RECURSIVE walk_all(_, _, _)

\* [walk(s) for s in stmts], the counter threaded from left to right
walk_all(stmts, auto_id, n) ==
  IF stmts = <<>> THEN [stmts |-> <<>>, n |-> n]
  ELSE LET first == walk(Head(stmts), auto_id, n)
           rest == walk_all(Tail(stmts), auto_id, first.n)
       IN [stmts |-> <<first.stmt>> \o rest.stmts, n |-> rest.n]

\* walk of _canonicalize_steps: the child blocks are walked before the
\* statement itself takes its Step ID
walk(stmt, auto_id, n) ==
  IF stmt.kind = "seq" THEN
    LET children == walk_all(stmt.data.stmts, auto_id, n) IN
    [stmt |-> Stmt("seq", 0, [stmts |-> children.stmts]), n |-> children.n]
  ELSE IF stmt.kind = "if" THEN
    LET then_block == walk_all(stmt.data.then, auto_id, n)
        else_block == walk_all(stmt.data.else, auto_id, then_block.n)
        a == assign_id(stmt.step_id, auto_id, else_block.n)
    IN [stmt |-> Stmt("if", a.step_id,
                      [cond |-> stmt.data.cond, then |-> then_block.stmts,
                       else |-> else_block.stmts]),
        n |-> a.n]
  ELSE IF stmt.kind = "loop" THEN
    LET body_block == walk_all(stmt.data.body, auto_id, n)
        a == assign_id(stmt.step_id, auto_id, body_block.n)
    IN [stmt |-> Stmt("loop", a.step_id,
                      [iter |-> stmt.data.iter, body |-> body_block.stmts]),
        n |-> a.n]
  ELSE LET a == assign_id(stmt.step_id, auto_id, n) IN
    [stmt |-> Stmt(stmt.kind, a.step_id, stmt.data), n |-> a.n]

\* _canonicalize_steps: counter = {"n": 0}
canonicalize_steps(root, auto_id) == walk(root, auto_id, 0).stmt

\* a Program: META's AUTO_ID and the root of STEPS
Program(meta, steps) == [err |-> FALSE, meta |-> meta, steps |-> steps]

canonicalize(program) ==
  Program(program.meta,
          canonicalize_steps(program.steps, truthy(program.meta.AUTO_ID)))

\* parse_isu
parse_isu(text) ==
  LET steps == parse_steps(text.steps) IN
  IF steps.err THEN IsuParseError
  ELSE canonicalize(Program([AUTO_ID |-> parse_scalar(text.auto_id)],
                            steps.steps))

\* the lines of one statement
AssignText(id, target, expr) ==
  <<HeadLn(id, "ASSIGN"), FieldLn("TARGET", target), ExprLn("EXPR", expr)>>
ReturnText(id, expr) == <<HeadLn(id, "RETURN"), ExprLn("EXPR", expr)>>
IfText(id, cond, then_lines, else_lines) ==
  <<HeadLn(id, "IF"), ExprLn("COND", cond), BeginLn("THEN")>> \o then_lines
    \o <<EndLn, BeginLn("ELSE")>> \o else_lines \o <<EndLn>>
LoopText(id, iter, body_lines) ==
  <<HeadLn(id, "LOOP"), FieldLn("ITER", iter), BeginLn("BODY")>> \o body_lines
    \o <<EndLn>>

RECURSIVE emit_stmt(_)
RECURSIVE emit_all(_)

emit_all(stmts) ==
  IF stmts = <<>> THEN <<>> ELSE emit_stmt(Head(stmts)) \o emit_all(Tail(stmts))

\* _emit_stmt: step_id = stmt.step_id or "S?"; TARGET is written as it is
emit_stmt(stmt) ==
  LET step_id == IF stmt.step_id = 0 THEN -1 ELSE stmt.step_id IN
  IF stmt.kind = "assign" THEN
    AssignText(step_id, Atom(FALSE, stmt.data.target.s),
               expr_to_str(stmt.data.expr))
  ELSE IF stmt.kind = "return" THEN
    ReturnText(step_id, expr_to_str(stmt.data.expr))
  ELSE IF stmt.kind = "if" THEN
    IfText(step_id, expr_to_str(stmt.data.cond), emit_all(stmt.data.then),
           emit_all(stmt.data.else))
  ELSE LoopText(step_id, scalar_to_str(stmt.data.iter),
                emit_all(stmt.data.body))

\* pretty_print_isu
pretty_print_isu(program) ==
  [auto_id |-> scalar_to_str(program.meta.AUTO_ID),
   steps |-> emit_all(program.steps.data.stmts)]

\* Program.to_json
to_json(program) == [meta |-> program.meta, steps |-> program.steps]

\* ------------------------------------------------------------ Isu inputs
Const(a) == Expr("const", <<a>>)
Conds == {Expr("lt", <<Atom(FALSE, "x"), Atom(FALSE, "2")>>)}
BlockTexts == {<<>>, ReturnText(0, Const(Atom(FALSE, "x")))}
Branches == {b \in BlockTexts \X BlockTexts : b[1] = <<>> => b[2] = <<>>}
StmtTexts ==
  {AssignText(id, t, Const(Atom(FALSE, "1"))) :
     id \in {0, 1}, t \in {Atom(FALSE, "x"), Atom(TRUE, "1")}}
  \cup {ReturnText(id, Const(a)) :
          id \in {0, 7},
          a \in {Atom(FALSE, "x"), Atom(TRUE, "1"), Atom(TRUE, "a b")}}
  \cup {IfText(id, c, b[1], b[2]) : id \in {0, 7}, c \in Conds, b \in Branches}
  \cup {LoopText(0, it, b) :
          it \in {Atom(FALSE, "3"), Atom(TRUE, "true")}, b \in BlockTexts}

RECURSIVE StepsTexts(_)
StepsTexts(n) ==
  IF n = 0 THEN {<<>>}
  ELSE StepsTexts(n - 1)
       \cup {t \o s : t \in StepsTexts(n - 1), s \in StmtTexts}

IsuTexts ==
  {[auto_id |-> a, steps |-> t] :
     a \in {Atom(FALSE, "true"), Atom(FALSE, "false")},
     t \in StepsTexts(MaxStmts)}

NoText == [auto_id |-> NoTok, steps |-> <<>>]
NoProgram == [err |-> FALSE, meta |-> [AUTO_ID |-> Val("none", "")],
              steps |-> Stmt("none", 0, [stmts |-> <<>>])]

\* ----------------------------------------------------- Isu specification
\* tests/test_isu_v0.py: p1 = parse_isu(text); out1 = pretty_print_isu(p1);
\* p2 = parse_isu(out1)
InitIsu ==
  /\ transpiler = NewTranspiler
  /\ src = <<>>
  /\ ret = NoReturn
  /\ calls = 0
  /\ repeats = FALSE
  /\ routine = <<>>
  /\ machine = Halted
  /\ ref = NoRef
  /\ proc = NoProc
  /\ lexer = NoLexer
  /\ isu \in {[pc |-> "text", text |-> t, p1 |-> NoProgram, out1 |-> NoText,
               p2 |-> NoProgram] : t \in IsuTexts}

ParseIsu ==
  /\ isu.pc = "text"
  /\ isu' = [isu EXCEPT !.pc = "parsed", !.p1 = parse_isu(isu.text)]
  /\ UNCHANGED <<transpiler, src, ret, calls, repeats, routine, machine, ref,
                 proc, lexer>>

PrettyPrintIsu ==
  /\ isu.pc = "parsed"
  /\ ~isu.p1.err
  /\ isu' = [isu EXCEPT !.pc = "printed", !.out1 = pretty_print_isu(isu.p1)]
  /\ UNCHANGED <<transpiler, src, ret, calls, repeats, routine, machine, ref,
                 proc, lexer>>

ReparseIsu ==
  /\ isu.pc = "printed"
  /\ isu' = [isu EXCEPT !.pc = "reparsed", !.p2 = parse_isu(isu.out1)]
  /\ UNCHANGED <<transpiler, src, ret, calls, repeats, routine, machine, ref,
                 proc, lexer>>

NextIsu == ParseIsu \/ PrettyPrintIsu \/ ReparseIsu

SpecIsu == InitIsu /\ [][NextIsu]_vars

\* C19: for every program with AUTO_ID true, parsing the text, printing
\* the program and parsing the printed text again gives a program whose JSON
\* form equals that of the first parse; the second parse does not fail.
C19_RoundTrip ==
  (isu.pc = "reparsed" /\ truthy(isu.p1.meta.AUTO_ID))
    => (~isu.p2.err /\ to_json(isu.p2) = to_json(isu.p1))

\* the statements of a list and of its blocks, in the order they are written
RECURSIVE AllStmts(_)
AllStmts(stmts) ==
  IF stmts = <<>> THEN <<>>
  ELSE LET s == Head(stmts)
           inner == IF s.kind = "if"
                      THEN AllStmts(s.data.then) \o AllStmts(s.data.else)
                    ELSE IF s.kind = "loop" THEN AllStmts(s.data.body)
                    ELSE <<>>
       IN <<s>> \o inner \o AllStmts(Tail(stmts))

\* the statements of the text as parse_isu(text, do_canonicalize=False) has them
Written == AllStmts(parse_steps(isu.text.steps).steps.data.stmts)
Canonical == AllStmts(isu.p1.steps.data.stmts)
Unnumbered == {i \in DOMAIN Written : Written[i].step_id = 0}
Flat == \A i \in DOMAIN Written : Written[i].kind \in {"assign", "return"}
Heads == SelectSeq(isu.out1.steps, LAMBDA l : l.k = "head")

\* C20: with AUTO_ID true, canonicalization numbers the statements written
\* without a Step ID from a counter that starts at 1 (they get S1..Sm, each
\* once), keeps every written Step ID, and leaves no statement without one;
\* in a flat sequence written without Step IDs the k-th statement is S<k>,
\* and the printed text carries these IDs on its statement headers.
C20_AutoId ==
  (isu.pc # "text" /\ truthy(isu.p1.meta.AUTO_ID)) =>
    /\ Len(Canonical) = Len(Written)
    /\ \A i \in DOMAIN Canonical :
         /\ Canonical[i].kind = Written[i].kind
         /\ Canonical[i].step_id # 0
         /\ i \notin Unnumbered => Canonical[i].step_id = Written[i].step_id
    /\ {Canonical[i].step_id : i \in Unnumbered} = 1..Cardinality(Unnumbered)
    /\ (Flat /\ Unnumbered = DOMAIN Written) =>
         \A k \in DOMAIN Canonical : Canonical[k].step_id = k
    /\ isu.pc \in {"printed", "reparsed"} =>
         /\ Len(Heads) = Len(Canonical)
         /\ \A i \in DOMAIN Heads : Heads[i].id = Canonical[i].step_id

\* the program of the test: ASSIGN and RETURN without Step IDs are printed as
\* 'S1: ASSIGN' and 'S2: RETURN'; and a numbered statement beside a kept S7
C20_Witness ==
  /\ isu.pc = "printed"
  /\ isu.text.auto_id = Atom(FALSE, "true")
  /\ isu.text.steps =
       AssignText(0, Atom(FALSE, "x"), Const(Atom(FALSE, "1")))
         \o ReturnText(0, Const(Atom(FALSE, "x")))
  /\ Heads = <<HeadLn(1, "ASSIGN"), HeadLn(2, "RETURN")>>

\* ------------------------------------------- positions in a dispatch loop
\* the "(if (i32.eq (local.get $_state) ..." line of state k, the lines inside
\* its "(then", the line after the code of its instructions, and the line
\* "(br $exit)" continues at
StateHead(code, k) ==
  CHOOSE j \in DOMAIN code : code[j].op = StateOp /\ code[j].n = k
StateBody(code, k) ==
  (StateHead(code, k) + 2)..(Match(code, StateHead(code, k) + 1) - 1)
StateEnd(code, body, k) ==
  LET labels == collect_labels(body) IN
  StateHead(code, k) + 2
    + Len(state_lines_code(partition_states(body, labels)[k], labels))
ExitTarget(code) == Match(code, LineOf(code, "(block $exit")) + 1
LastState(body) == Cardinality(collect_labels(body))

\* C21: when the instructions of state k have run to their end without a
\* taken jump or a return, the machine sets $_state to k + 1 and restarts the
\* loop if state k + 1 exists, and leaves the dispatch loop otherwise; control
\* inside the conditional of one state stays there until it restarts the loop,
\* leaves the loop or returns: it never runs on into a later state's
\* conditional.
C21_Fallthrough ==
  [][(HasLoop(routine) /\ machine.status = "run") =>
       \A k \in 0..LastState(src) :
         /\ machine.pc = StateEnd(routine, src, k) =>
              /\ machine'.status = "run"
              /\ IF k < LastState(src)
                   THEN /\ machine'.state = k + 1
                        /\ machine'.pc = machine.pc + 1
                        /\ routine[machine'.pc].op = "(br $loop)"
                   ELSE /\ machine'.pc = ExitTarget(routine)
                        /\ \A i \in ExitTarget(routine)..Len(routine) :
                             routine[i].op \in {"(i32.const", ")"}
         /\ (machine.pc = StateEnd(routine, src, k) + 1 /\ k < LastState(src)
               /\ machine.pc \in StateBody(routine, k)) =>
              /\ machine'.pc = LoopStart(routine)
              /\ machine'.state = k + 1
         /\ machine.pc \in StateBody(routine, k) =>
              \/ machine'.status # "run"
              \/ machine'.pc \in StateBody(routine, k)
                                   \cup {LoopStart(routine), ExitTarget(routine)}]_vars

\* '! g0 g0', ': 1', '! g0 g0': state 0 ran to its end (g0 is 1) and the loop
\* restarted in state 1
C21_Witness ==
  /\ src = <<(<<Op("!"), G(0), G(0)>>), (<<Op(":"), Lit(1)>>),
             (<<Op("!"), G(0), G(0)>>)>>
  /\ machine.status = "run"
  /\ machine.pc = LoopStart(routine)
  /\ machine.state = 1
  /\ Get(machine.globals, 0) = 1

\* the conditional jumps of body: for the m-th instruction of state k, a
\* '? c L', the position p in code of the "(if" line emitted for it
CondJumps(code, body) ==
  LET labels == collect_labels(body)
      states == partition_states(body, labels)
  IN UNION {{[k |-> k, m |-> m, tokens |-> states[k][m],
              p |-> StateHead(code, k) + 2
                      + Len(state_lines_code(SubSeq(states[k], 1, m - 1), labels))
                      + 1] :
               m \in {x \in DOMAIN states[k] : states[k][x][1].s = "?"}} :
            k \in DOMAIN states}

\* the state of label L: its rank among the marked labels, 0 if it is not marked
StateOfLabel(body, L) ==
  IF L \in collect_labels(body)
    THEN Cardinality({x \in collect_labels(body) : x <= L})
  ELSE 0

\* nothing but pc, stack and $_state differs between machines m1 and m2
SameData(m1, m2) ==
  /\ m1.globals = m2.globals /\ m1.locals = m2.locals /\ m1.mem = m2.mem
  /\ m1.heap_ptr = m2.heap_ptr /\ m1.printed = m2.printed
  /\ m1.result = m2.result

\* C22: a conditional jump '? c L' inside a state evaluates c; when the value
\* is non-zero, $_state is set to the state of L and the loop restarts, no
\* instruction of the current state running in between; when it is zero,
\* $_state is unchanged and control continues at the next instruction of the
\* same state.
C22_ConditionalJump ==
  [][(HasLoop(routine) /\ machine.status = "run") =>
       \A j \in CondJumps(routine, src) :
         /\ machine.pc = j.p - 1 =>
              /\ machine'.status = "run" /\ machine'.pc = j.p
              /\ Top(machine'.stack) = RefVal(At(j.tokens, 1), machine)
         /\ (machine.pc = j.p /\ Top(machine.stack) # 0) =>
              /\ machine'.status = "run" /\ machine'.pc = j.p + 1
              /\ machine'.state = machine.state /\ SameData(machine, machine')
         /\ machine.pc = j.p + 1 =>
              /\ machine'.status = "run" /\ machine'.pc = j.p + 2
              /\ machine'.state = machine.state /\ SameData(machine, machine')
         /\ machine.pc = j.p + 2 =>
              /\ machine'.status = "run" /\ machine'.pc = j.p + 3
              /\ machine'.state = StateOfLabel(src, At(j.tokens, 2).n)
              /\ SameData(machine, machine')
         /\ machine.pc = j.p + 3 =>
              /\ machine'.status = "run" /\ machine'.pc = LoopStart(routine)
              /\ machine.state = StateOfLabel(src, At(j.tokens, 2).n)
              /\ machine'.state = machine.state /\ SameData(machine, machine')
         /\ (machine.pc = j.p /\ Top(machine.stack) = 0) =>
              /\ machine'.status = "run"
              /\ machine'.pc = j.p + 6
              /\ machine'.pc = StateHead(routine, j.k) + 2
                   + Len(state_lines_code(
                       SubSeq(partition_states(src, collect_labels(src))[j.k],
                              1, j.m), collect_labels(src)))
              /\ machine'.state = machine.state /\ SameData(machine, machine')]_vars

\* ': 2', '! g0 g0', '? g0 2', '! g0 g0': the jump to label 2 was taken in
\* state 1 with g0 = 1, the '! g0 g0' after it did not run, and the loop
\* restarted in state 1
C22_Witness ==
  /\ src = <<(<<Op(":"), Lit(2)>>), (<<Op("!"), G(0), G(0)>>),
             (<<Op("?"), G(0), Lit(2)>>), (<<Op("!"), G(0), G(0)>>)>>
  /\ machine.status = "run"
  /\ machine.pc = LoopStart(routine)
  /\ machine.state = 1
  /\ Get(machine.globals, 0) = 1

\* the instructions of body after line i (0: from the body start) up to the
\* next label marker, scope-close lines left out
RunAfter(body, i) ==
  Pick(body, {j \in (i + 1)..Len(body) :
                /\ body[j][1].s # "}"
                /\ \A m \in (i + 1)..j : body[m][1].s # ":"})

RECURSIVE TotalLen(_, _)
TotalLen(states, ids) ==
  IF ids = {} THEN 0
  ELSE LET k == CHOOSE x \in ids : TRUE
       IN Len(states[k]) + TotalLen(states, ids \ {k})

\* C23: in every body with labels, also one that marks a label more than
\* once, the instruction list of each state is one contiguous run of the body:
\* the instructions from the body start (state 0) or from a marker of the
\* state's label up to the next marker; every instruction is in exactly one
\* state, and no marker and no scope-close line is in a state.
C23_ContiguousStates ==
  (calls = 1 /\ ~ret.raised /\ collect_labels(src) # {}) =>
    LET labels == collect_labels(src)
        states == partition_states(src, labels)
    IN /\ SeqToSet(NumsOf(ret.text, StateOp)) = DOMAIN states
       /\ states[0] = RunAfter(src, 0)
       /\ \A k \in DOMAIN states \ {0} :
            \E i \in label_lines(src) :
              /\ state_map(labels)[At(src[i], 1).n] = k
              /\ states[k] = RunAfter(src, i)
       /\ TotalLen(states, DOMAIN states)
            = Cardinality({j \in DOMAIN src : src[j][1].s \notin {":", "}"}})
       /\ \A k \in DOMAIN states : \A m \in DOMAIN states[k] :
            states[k][m][1].s \notin {":", "}"}

\* the lines of a routine between its local declarations and its default
\* result, without their indentation
RoutineBody(code) ==
  LET I == {i \in 2..(Len(code) - 2) : code[i].op # "(local $v"}
  IN [i \in 1..Cardinality(I) |-> [Pick(code, I)[i] EXCEPT !.sp = 0]]

DispatchOps ==
  {"(local $_state i32)", set_state(0).op, "(block $exit", "(loop $loop",
   StateOp, "(br $loop)", "(br $exit)"}

ArithExample ==
  <<(<<Op("="), G(0), Lit(10)>>), (<<Op("+"), G(1), G(0), Lit(5)>>),
    (<<Op("."), G(1)>>)>>

\* C24: for a body without a label marker no dispatch variable, block or loop
\* is emitted, and the code of the body is the code of its lines, each
\* compiled alone, one after the other in source order; '= g0 10',
\* '+ g1 g0 5', '. g1' is compiled to: set g0 to 10, set g1 to g0 + 5, print
\* g1; run to its end it leaves g0 = 10, g1 = 15, has printed 15 and yields 0.
C24_LinearBody ==
  (collect_labels(src) = {} /\ machine.status # "none") =>
    /\ \A i \in DOMAIN routine : routine[i].op \notin DispatchOps
    /\ RoutineBody(routine)
         = Concat([i \in DOMAIN src |-> transpile_block(<<src[i]>>)])
    /\ src = ArithExample =>
         /\ RoutineBody(routine)
              = <<Ln("(i32.const", 10), Ln("(global.set $g", 0),
                  Ln("(global.get $g", 0), Ln("(i32.const", 5),
                  Ln("(i32.add)", 0), Ln("(global.set $g", 1),
                  Ln("(global.get $g", 1), Ln("(call $print_i32)", 0)>>
         /\ routine[Len(routine) - 1].op = "(i32.const"
         /\ routine[Len(routine) - 1].n = 0
         /\ machine.status \notin {"trap", "returned"}
         /\ machine.status = "end" =>
              /\ Get(machine.globals, 0) = 10 /\ Get(machine.globals, 1) = 15
              /\ machine.printed = <<15>> /\ machine.result = 0

\* the example body was run to its end
C24_Witness ==
  /\ src = ArithExample
  /\ machine.status = "end"
  /\ machine.printed = <<15>>
  /\ machine.result = 0

\* ===================================================== parse_line (29-58)
\* A line is a sequence of characters; positions are 1-based here, 0-based in
\* the code. A token is the sequence of its characters.
SP == " "
QT == "\""
BS == "\\"
SC == ";"
Chars == {SP, QT, BS, SC, "a"}
Whitespace == {SP}

\* line[:line.index(';')] if ';' in line
cut_comment(line) ==
  IF \E i \in DOMAIN line : line[i] = SC
    THEN SubSeq(line, 1, (CHOOSE i \in DOMAIN line :
                            line[i] = SC /\ \A j \in 1..(i - 1) : line[j] # SC) - 1)
  ELSE line

\* line.strip()
strip(line) ==
  LET I == {i \in DOMAIN line : line[i] \notin Whitespace} IN
  IF I = {} THEN <<>>
  ELSE SubSeq(line, CHOOSE i \in I : \A j \in I : i <= j,
                    CHOOSE i \in I : \A j \in I : j <= i)

RECURSIVE quote_end_no_escape(_, _)
\* a mutant of quote_end: a backslash does not escape the next character
quote_end_no_escape(line, j) ==
  IF j <= Len(line) /\ line[j] # QT THEN quote_end_no_escape(line, j + 1)
  ELSE j

RECURSIVE quote_end(_, _)
\* the inner loop of a quoted token: the position j it stops at
quote_end(line, j) ==
  IF j <= Len(line) /\ line[j] # QT THEN
    (IF line[j] = BS THEN quote_end(line, j + 2) ELSE quote_end(line, j + 1))
  ELSE j

RECURSIVE word_end(_, _)
\* the inner loop of a bare token
word_end(line, j) ==
  IF j <= Len(line) /\ line[j] \notin Whitespace THEN word_end(line, j + 1)
  ELSE j

\* line[i:j + 1] of Python for the 1-based positions i..j: a slice stops at
\* the end of the line
slice(line, i, j) == SubSeq(line, i, IF j > Len(line) THEN Len(line) ELSE j)

ReturnNone == [none |-> TRUE, tokens |-> <<>>]

TokLines == SeqsUpTo(Chars, MaxChars)

\* ------------------------------------------ SpecTok: one call of parse_line
InitTok ==
  /\ transpiler = NewTranspiler
  /\ src = <<>>
  /\ ret = NoReturn
  /\ calls = 0
  /\ repeats = FALSE
  /\ routine = <<>>
  /\ machine = Halted
  /\ ref = NoRef
  /\ proc = NoProc
  /\ isu = NoIsu
  /\ lexer \in {[pc |-> "call", line |-> l, text |-> <<>>, i |-> 0,
                 tokens |-> <<>>, ret |-> ReturnNone] : l \in TokLines}

\* lines 31-38: the comment is cut, the line stripped; an empty line is None
ParseLineBegin ==
  /\ lexer.pc = "call"
  /\ LET text == strip(cut_comment(lexer.line)) IN
       lexer' = IF text = <<>> THEN [lexer EXCEPT !.pc = "done", !.text = text]
                ELSE [lexer EXCEPT !.pc = "scan", !.text = text, !.i = 1]
  /\ UNCHANGED <<transpiler, src, ret, calls, repeats, routine, machine, ref,
                 proc, isu>>

\* lines 39-57: one iteration of the outer loop
ParseLineScan ==
  /\ lexer.pc = "scan"
  /\ lexer.i <= Len(lexer.text)
  /\ LET line == lexer.text
         i == lexer.i
     IN lexer' =
          IF line[i] \in Whitespace THEN [lexer EXCEPT !.i = i + 1]
          ELSE IF line[i] = QT THEN
            LET j == quote_end(line, i + 1) IN
            [lexer EXCEPT !.tokens = Append(@, slice(line, i, j)), !.i = j + 1]
          ELSE
            LET j == word_end(line, i) IN
            [lexer EXCEPT !.tokens = Append(@, slice(line, i, j - 1)), !.i = j]
  /\ UNCHANGED <<transpiler, src, ret, calls, repeats, routine, machine, ref,
                 proc, isu>>

\* line 58: return tokens if tokens else None
ParseLineReturn ==
  /\ lexer.pc = "scan"
  /\ lexer.i > Len(lexer.text)
  /\ lexer' = [lexer EXCEPT !.pc = "done",
                            !.ret = IF lexer.tokens # <<>>
                                      THEN [none |-> FALSE, tokens |-> lexer.tokens]
                                    ELSE ReturnNone]
  /\ UNCHANGED <<transpiler, src, ret, calls, repeats, routine, machine, ref,
                 proc, isu>>

NextTok == ParseLineBegin \/ ParseLineScan \/ ParseLineReturn

\* the call runs on: a loop iteration that can be taken is taken
SpecTok == InitTok /\ [][NextTok]_vars /\ WF_vars(NextTok)

RECURSIVE Closes(_, _)
\* the first quote at or after position j that no backslash escapes; 0 if
\* there is none
Closes(line, j) ==
  IF j > Len(line) THEN 0
  ELSE IF line[j] = BS THEN Closes(line, j + 2)
  ELSE IF line[j] = QT THEN j
  ELSE Closes(line, j + 1)

RECURSIVE Segments(_, _)
\* the double-quoted segments <<s, e>> of a line from position i on, up to a
\* comment marker outside every segment
Segments(line, i) ==
  IF i > Len(line) \/ line[i] = SC THEN {}
  ELSE IF line[i] = QT THEN
    (IF Closes(line, i + 1) = 0 THEN {}
     ELSE {<<i, Closes(line, i + 1)>>} \cup Segments(line, Closes(line, i + 1) + 1))
  ELSE Segments(line, i + 1)

Infix(x, t) == \E k \in 1..(Len(t) - Len(x) + 1) : SubSeq(t, k, k + Len(x) - 1) = x

NonBlank(line) == {i \in DOMAIN line : line[i] \notin Whitespace}
CommentOnly(line) ==
  /\ NonBlank(line) # {}
  /\ line[CHOOSE i \in NonBlank(line) : \A j \in NonBlank(line) : i <= j] = SC

\* the positions where a run of non-blank characters starts
WordStarts(line) ==
  {i \in NonBlank(line) : i = 1 \/ line[i - 1] \in Whitespace}

\* C25: a line is split on runs of whitespace except inside double-quoted
\* segments: every double-quoted segment (a backslash inside it escapes the
\* next character), wherever it starts in the line, lies with both its quotes
\* inside one token; a line without quotes and comment is split into its
\* runs of non-blank characters; a blank or comment-only line has no tokens.
C25_Tokenize ==
  lexer.pc = "done" =>
    /\ \A seg \in Segments(lexer.line, 1) :
         /\ ~lexer.ret.none
         /\ \E k \in DOMAIN lexer.ret.tokens :
              Infix(SubSeq(lexer.line, seg[1], seg[2]), lexer.ret.tokens[k])
    /\ (NonBlank(lexer.line) = {} \/ CommentOnly(lexer.line)) => lexer.ret.none
    /\ (\A i \in DOMAIN lexer.line : lexer.line[i] \notin {QT, SC}) =>
         /\ Len(lexer.ret.tokens) = Cardinality(WordStarts(lexer.line))
         /\ Concat(lexer.ret.tokens) = Pick(lexer.line, NonBlank(lexer.line))
         /\ \A k \in DOMAIN lexer.ret.tokens :
              /\ lexer.ret.tokens[k] # <<>>
              /\ \A c \in DOMAIN lexer.ret.tokens[k] :
                   lexer.ret.tokens[k][c] \notin Whitespace

\* C26: a call of parse_line always ends and returns None or a list of
\* tokens; every loop iteration moves the position forward and keeps the
\* tokens found so far; at a quote whose segment has no closing quote (also
\* when the line ends in a backslash inside it) the rest of the line becomes
\* that one token and the loop ends.
C26_Unterminated ==
  /\ [][(/\ lexer.pc = "scan" /\ lexer.i <= Len(lexer.text)
         /\ lexer.text[lexer.i] = QT
         /\ Closes(lexer.text, lexer.i + 1) = 0)
        => /\ lexer'.pc = "scan"
           /\ lexer'.tokens
                = Append(lexer.tokens,
                         SubSeq(lexer.text, lexer.i, Len(lexer.text)))
           /\ lexer'.i > Len(lexer.text)]_vars
  /\ [][lexer.pc = "scan"
        => \/ /\ lexer'.pc = "done"
              /\ ~lexer'.ret.none
              /\ lexer'.ret.tokens = lexer.tokens
           \/ /\ lexer'.pc = "scan"
              /\ lexer'.i > lexer.i
              /\ lexer'.i <= Len(lexer.text) + 3
              /\ Len(lexer'.tokens) >= Len(lexer.tokens)
              /\ SubSeq(lexer'.tokens, 1, Len(lexer.tokens)) = lexer.tokens]_vars
  /\ <>(lexer.pc = "done")

\* 'a "\': the token 'a', then the quote and the backslash as one token
C26_Witness ==
  /\ lexer.pc = "done"
  /\ lexer.line = <<"a", SP, QT, BS>>
  /\ lexer.ret = [none |-> FALSE, tokens |-> <<(<<"a">>), (<<QT, BS>>)>>]

\* the array lines of a body: loads and stores, and the last load
Loads(body) == {i \in DOMAIN body : body[i][1].s = "]"}
Stores(body) == {i \in DOMAIN body : body[i][1].s = "{"}
LastLoad(body) == CHOOSE p \in Loads(body) : \A q \in Loads(body) : q <= p

\* the store a load at line p reads: the last store before p to the same
\* base and the same index
StoreRead(body, p) ==
  LET S == {q \in Stores(body) :
              /\ q < p
              /\ At(body[q], 1) = At(body[p], 2)
              /\ At(body[q], 2) = At(body[p], 3)}
  IN IF S = {} THEN 0 ELSE CHOOSE q \in S : \A r \in S : r <= q

\* C27: '{ base i x' writes x to the cell at base + 4 * i and '] d base i'
\* reads the cell at that address: a load puts in d the value of the last
\* store before it to the same base and index, whatever was stored to other
\* indices of that base in between.
C27_LoadAfterStore ==
  (/\ machine.status = "end" /\ src \in SeqsUpTo(StoreLines, MaxStores)
   /\ Loads(src) # {} /\ StoreRead(src, LastLoad(src)) # 0)
    => Get(machine.globals, 1) = At(src[StoreRead(src, LastLoad(src))], 3).n

\* validate(program): the statements in the order check_stmt visits them (a
\* statement, then its then/else/body blocks), each giving its errors
check_stmt(stmts, auto_id, i) ==
  (IF ~auto_id /\ stmts[i].step_id = 0
     THEN <<[message |-> "Step ID is required (AUTO_ID=false)", step_id |-> 0]>>
   ELSE <<>>)
  \o (IF stmts[i].step_id # 0
         /\ \E j \in 1..(i - 1) : stmts[j].step_id = stmts[i].step_id
        THEN <<[message |-> "Duplicate Step ID", step_id |-> stmts[i].step_id]>>
      ELSE <<>>)

RECURSIVE check_all(_, _, _)
check_all(stmts, auto_id, i) ==
  IF i > Len(stmts) THEN <<>>
  ELSE check_stmt(stmts, auto_id, i) \o check_all(stmts, auto_id, i + 1)

validate(program) ==
  check_all(AllStmts(program.steps.data.stmts), truthy(program.meta.AUTO_ID), 1)

\* the Step IDs the text writes are pairwise distinct
WrittenDistinct ==
  \A i, j \in DOMAIN Written :
    (i # j /\ Written[i].step_id # 0) => Written[i].step_id # Written[j].step_id

\* C30: after canonicalization with AUTO_ID true the Step IDs of all
\* statements of the program are pairwise distinct, also when some are
\* written and others numbered, so that validate reports no
\* 'Duplicate Step ID' for a text whose written Step IDs are distinct.
C30_DistinctIds ==
  (isu.pc # "text" /\ truthy(isu.p1.meta.AUTO_ID) /\ WrittenDistinct) =>
    /\ \A i, j \in DOMAIN Canonical :
         i # j => Canonical[i].step_id # Canonical[j].step_id
    /\ \A i \in DOMAIN validate(isu.p1) :
         validate(isu.p1)[i].message # "Duplicate Step ID"

\* the header line of the routine that encloses line i of an emitted text
\* (0 at module level), and the kinds of lines that name a variable
RoutineHeads(text) ==
  {j \in DOMAIN text : text[j].op \in {func_header(0, 0).op, MainOp}}
Enclosing(text, i) ==
  LET H == {j \in RoutineHeads(text) : j < i /\ i < Match(text, j)}
  IN IF H = {} THEN 0 ELSE CHOOSE j \in H : \A k \in H : k <= j
LocalRefs == {"(local.get $v", "(local.set $v"}
GlobalRefs == {"(global.get $g", "(global.set $g"}

\* C28: in the text of every source that compiles without an exception,
\* every local.get / local.set of a $v<i> stands in a routine that declares
\* (local $v<i> i32), and every global.get / global.set of a $g<i> names a
\* global declared at module level.
C28_ReferencesDeclared ==
  (calls = 1 /\ ~ret.raised) =>
    \A i \in DOMAIN ret.text :
      /\ ret.text[i].op \in LocalRefs =>
           /\ Enclosing(ret.text, i) # 0
           /\ \E k \in (Enclosing(ret.text, i) + 1)..(i - 1) :
                /\ ret.text[k].op = "(local $v"
                /\ ret.text[k].n = ret.text[i].n
                /\ Enclosing(ret.text, k) = Enclosing(ret.text, i)
      /\ ret.text[i].op \in GlobalRefs =>
           \E k \in DOMAIN ret.text :
             /\ ret.text[k].op = GlobalOp
             /\ ret.text[k].n = ret.text[i].n
             /\ Enclosing(ret.text, k) = 0

\* '# 1 1', '= v1 g2', '}', '[ g1 v0': function 1 sets its own $v1 and reads
\* $g2, the entry routine reads its own $v0 and sets $g1
C28_Witness ==
  /\ calls = 1
  /\ ~ret.raised
  /\ src = <<(<<Op("#"), Lit(1), Lit(1)>>), (<<Op("="), V(1), G(2)>>),
             (<<Op("}")>>), (<<Op("["), G(1), V(0)>>)>>
  /\ NumsOf(FunctionText(ret.text, 1), "(local.set $v") = <<1>>
  /\ NumsOf(FunctionText(ret.text, 1), "(global.get $g") = <<2>>
  /\ NumsOf(FunctionText(ret.text, 1), "(local $v") = <<1>>
  /\ NumsOf(MainText(ret.text), "(local.get $v") = <<0>>
  /\ NumsOf(MainText(ret.text), "(global.set $g") = <<1>>
  /\ NumsOf(MainText(ret.text), "(local $v") = <<0>>
  /\ NumsOf(ret.text, GlobalOp) = <<1, 2>>

\* C29: every parameter reference $a<i> of the emitted text lies within the
\* parameters its routine declares: i < argc in a function declared with
\* argc parameters, and none in the entry routine.
C29_ParamsDeclared ==
  (calls = 1 /\ ~ret.raised) =>
    \A i \in DOMAIN ret.text :
      ret.text[i].op = "(local.get $a" =>
        /\ Enclosing(ret.text, i) # 0
        /\ ret.text[Enclosing(ret.text, i)].op = func_header(0, 0).op
        /\ ret.text[i].n >= 0
        /\ ret.text[i].n < ret.text[Enclosing(ret.text, i)].m

=============================================================================
